---- MODULE Spec2Model ----
(***************************************************************************)
(* Feature-flag evaluation engine of glowcam-api                           *)
(* (src/src/services/flag.service.ts, src/src/lib/redis.ts).               *)
(*                                                                         *)
(* JavaScript strings are modelled as sequences of one-character strings,  *)
(* so that concatenation, splitting, prefix and substring tests are        *)
(* computed rather than assumed.  JavaScript values are tagged records.    *)
(***************************************************************************)
EXTENDS Integers, Sequences, FiniteSets, TLC

\* ------------------------------------------------------------------------
\* Bounds of the model
\* ------------------------------------------------------------------------

\* Longest rule list of a flag drawn for the pure evaluation runs.
MaxRules == 3

\* Number of calculateRollout calls of one rollout run.
MaxRollCalls == 2

\* Number of clock advances in one service run.
MaxTicks == 2

\* Number of store mutations in one service run.
MaxMutations == 1

\* Number of service calls in one service run.
MaxCalls == 3

\* ------------------------------------------------------------------------
\* JavaScript strings and values
\* ------------------------------------------------------------------------

\* The characters the model's strings are built from, in UTF-16 code order.
Chars ==
  << " ", "$", "(", ")", "*", ",", "-", ".", "0", "1", "2", "3", "4", "5", "6", "7", "8", "9", ":",
     "A", "I", "N", "O", "S", "[", "]", "^", "_",
     "a", "b", "c", "d", "e", "f", "g", "h", "i", "j", "k", "l", "m",
     "n", "o", "p", "q", "r", "s", "t", "u", "v", "w", "x", "y", "z",
     "{", "}" >>

CharOrder(c) == CHOOSE i \in 1..Len(Chars) : Chars[i] = c

Digits == <<"0", "1", "2", "3", "4", "5", "6", "7", "8", "9">>

IsDigit(c) == \E i \in 1..10 : Digits[i] = c

DigitValue(c) == (CHOOSE i \in 1..10 : Digits[i] = c) - 1

Undefined == [t |-> "undefined"]
Null == [t |-> "null"]
JStr(s) == [t |-> "string", v |-> s]
JNum(n) == [t |-> "number", nan |-> FALSE, v |-> n]
NaN == [t |-> "number", nan |-> TRUE, v |-> 0]
JBool(b) == [t |-> "boolean", v |-> b]
JArr(a) == [t |-> "array", v |-> a]
JObj(f) == [t |-> "object", v |-> f]
\* A built-in function, with the name it was declared under.
JFunction(name) == [t |-> "function", name |-> name]

\* typeof x
TypeOf(x) ==
  CASE x.t = "null" -> "object"
    [] x.t = "array" -> "object"
    [] OTHER -> x.t

IsNullish(x) == x.t = "undefined" \/ x.t = "null"

RECURSIVE NatToStr(_)
NatToStr(n) ==
  IF n < 10 THEN <<Digits[n + 1]>>
  ELSE NatToStr(n \div 10) \o <<Digits[(n % 10) + 1]>>

S_true == <<"t", "r", "u", "e">>
S_false == <<"f", "a", "l", "s", "e">>
S_null == <<"n", "u", "l", "l">>
S_undefined == <<"u", "n", "d", "e", "f", "i", "n", "e", "d">>
S_NaN == <<"N", "a", "N">>
S_objectObject ==
  <<"[", "o", "b", "j", "e", "c", "t", " ", "O", "b", "j", "e", "c", "t", "]">>
S_function == <<"f", "u", "n", "c", "t", "i", "o", "n">>
S_nativeCode ==
  <<"(", ")", " ", "{", " ", "[", "n", "a", "t", "i", "v", "e", " ",
    "c", "o", "d", "e", "]", " ", "}">>
S_Object == <<"O", "b", "j", "e", "c", "t">>
S_Array == <<"A", "r", "r", "a", "y">>
S_length == <<"l", "e", "n", "g", "t", "h">>
S_constructor == <<"c", "o", "n", "s", "t", "r", "u", "c", "t", "o", "r">>
S_toString == <<"t", "o", "S", "t", "r", "i", "n", "g">>
S_valueOf == <<"v", "a", "l", "u", "e", "O", "f">>
S_proto == <<"_", "_", "p", "r", "o", "t", "o", "_", "_">>

\* String(x): the string form the condition operators compare.
RECURSIVE ToStr(_)
RECURSIVE JoinComma(_, _)
JoinComma(a, i) ==
  IF i > Len(a) THEN <<>>
  ELSE (IF i > 1 THEN <<",">> ELSE <<>>)
       \o (IF IsNullish(a[i]) THEN <<>> ELSE ToStr(a[i]))
       \o JoinComma(a, i + 1)

ToStr(x) ==
  CASE x.t = "string" -> x.v
    [] x.t = "number" ->
         IF x.nan THEN S_NaN
         ELSE IF x.v < 0 THEN <<"-">> \o NatToStr(0 - x.v)
         ELSE NatToStr(x.v)
    [] x.t = "boolean" -> IF x.v THEN S_true ELSE S_false
    [] x.t = "null" -> S_null
    [] x.t = "undefined" -> S_undefined
    [] x.t = "array" -> JoinComma(x.v, 1)
    [] x.t = "function" -> S_function \o <<" ">> \o x.name \o S_nativeCode
    [] OTHER -> S_objectObject

RECURSIVE DigitsToNat(_, _)
DigitsToNat(s, acc) ==
  IF s = <<>> THEN acc
  ELSE DigitsToNat(Tail(s), acc * 10 + DigitValue(Head(s)))

AllDigits(s) == \A i \in 1..Len(s) : IsDigit(s[i])

\* Number(s) for a string: the empty string is 0, an optionally signed run
\* of decimal digits is its value, any other string of the model is NaN.
StrToNumber(s) ==
  IF s = <<>> THEN JNum(0)
  ELSE IF AllDigits(s) THEN JNum(DigitsToNat(s, 0))
  ELSE IF Len(s) > 1 /\ Head(s) = "-" /\ AllDigits(Tail(s))
    THEN JNum(0 - DigitsToNat(Tail(s), 0))
  ELSE NaN

\* Number(x)
ToNumber(x) ==
  CASE x.t = "number" -> x
    [] x.t = "boolean" -> IF x.v THEN JNum(1) ELSE JNum(0)
    [] x.t = "null" -> JNum(0)
    [] x.t = "undefined" -> NaN
    [] x.t = "string" -> StrToNumber(x.v)
    [] x.t = "array" -> StrToNumber(ToStr(x))
    [] OTHER -> NaN

\* a < b on JavaScript strings: lexicographic by UTF-16 code unit.
RECURSIVE StrLess(_, _)
StrLess(a, b) ==
  IF b = <<>> THEN FALSE
  ELSE IF a = <<>> THEN TRUE
  ELSE IF Head(a) = Head(b) THEN StrLess(Tail(a), Tail(b))
  ELSE CharOrder(Head(a)) < CharOrder(Head(b))

IsPrefix(p, s) == Len(p) <= Len(s) /\ SubSeq(s, 1, Len(p)) = p

\* s.includes(p)
Includes(s, p) ==
  \E i \in 1..(Len(s) + 1) :
    i + Len(p) - 1 <= Len(s) /\ SubSeq(s, i, i + Len(p) - 1) = p

\* s.split(sep) for a one-character separator.
RECURSIVE SplitOn(_, _, _)
SplitOn(s, sep, cur) ==
  IF s = <<>> THEN <<cur>>
  ELSE IF Head(s) = sep THEN <<cur>> \o SplitOn(Tail(s), sep, <<>>)
  ELSE SplitOn(Tail(s), sep, Append(cur, Head(s)))

\* ------------------------------------------------------------------------
\* Semver helpers
\* ------------------------------------------------------------------------

RECURSIVE TakeDigits(_)
TakeDigits(s) ==
  IF s # <<>> /\ IsDigit(Head(s)) THEN <<Head(s)>> \o TakeDigits(Tail(s))
  ELSE <<>>

DropN(s, n) == SubSeq(s, n + 1, Len(s))

NoSemver == [ok |-> FALSE, major |-> 0, minor |-> 0, patch |-> 0]

\* version.match(/^(\d+)\.(\d+)\.(\d+)/): a leading numeric triplet, any
\* suffix ignored; NoSemver stands for the null the code returns.
parseSemver(version) ==
  LET d1 == TakeDigits(version)
      r1 == DropN(version, Len(d1))
      d2 == IF r1 # <<>> /\ Head(r1) = "." THEN TakeDigits(Tail(r1)) ELSE <<>>
      r2 == IF r1 # <<>> THEN DropN(Tail(r1), Len(d2)) ELSE <<>>
      d3 == IF r2 # <<>> /\ Head(r2) = "." THEN TakeDigits(Tail(r2)) ELSE <<>>
  IN IF d1 # <<>> /\ d2 # <<>> /\ d3 # <<>>
       THEN [ok |-> TRUE, major |-> DigitsToNat(d1, 0),
             minor |-> DigitsToNat(d2, 0), patch |-> DigitsToNat(d3, 0)]
       ELSE NoSemver

\* compareSemver taking its string comparison fallback on every input.
compareSemver_stringsOnly(a, b) ==
  IF StrLess(a, b) THEN -1 ELSE IF StrLess(b, a) THEN 1 ELSE 0

\* -1 if a < b, 0 if a == b, 1 if a > b; string comparison when either
\* side is not a semver.
compareSemver(a, b) ==
  LET aParts == parseSemver(a)
      bParts == parseSemver(b)
  IN IF ~aParts.ok \/ ~bParts.ok
       THEN (IF StrLess(a, b) THEN -1 ELSE IF StrLess(b, a) THEN 1 ELSE 0)
     ELSE IF aParts.major # bParts.major
       THEN (IF aParts.major < bParts.major THEN -1 ELSE 1)
     ELSE IF aParts.minor # bParts.minor
       THEN (IF aParts.minor < bParts.minor THEN -1 ELSE 1)
     ELSE IF aParts.patch # bParts.patch
       THEN (IF aParts.patch < bParts.patch THEN -1 ELSE 1)
     ELSE 0

\* ------------------------------------------------------------------------
\* Condition matching
\* ------------------------------------------------------------------------

\* Properties every object inherits from Object.prototype (functions).
InheritedFunctions == {S_constructor, S_toString, S_valueOf}

\* An array index in canonical form: "0" or digits without a leading zero.
IsIndex(part) ==
  /\ part # <<>>
  /\ AllDigits(part)
  /\ (Len(part) = 1 \/ Head(part) # "0")

\* (current as Record<string, unknown>)[part] for a value whose typeof is
\* 'object' and that is not null.
GetProp(current, part) ==
  IF current.t = "array" THEN
    IF IsIndex(part) THEN
      (IF DigitsToNat(part, 0) < Len(current.v)
         THEN current.v[DigitsToNat(part, 0) + 1] ELSE Undefined)
    ELSE IF part = S_length THEN JNum(Len(current.v))
    ELSE IF part \in InheritedFunctions
      THEN JFunction(IF part = S_constructor THEN S_Array ELSE part)
    ELSE IF part = S_proto THEN JArr(<<>>)
    ELSE Undefined
  ELSE
    IF part \in DOMAIN current.v THEN current.v[part]
    ELSE IF part \in InheritedFunctions
      THEN JFunction(IF part = S_constructor THEN S_Object ELSE part)
    ELSE IF part = S_proto THEN JObj(<<>>)
    ELSE Undefined

RECURSIVE Traverse(_, _)
Traverse(current, parts) ==
  IF parts = <<>> THEN current
  ELSE IF IsNullish(current) THEN Undefined
  ELSE IF TypeOf(current) = "object"
    THEN Traverse(GetProp(current, Head(parts)), Tail(parts))
  ELSE Undefined

\* Value of the evaluation context at a dotted field path.
getContextValue(context, field) == Traverse(context, SplitOn(field, ".", <<>>))

\* The numeric comparison with two strings compared as strings (a > b).
NumCompare_lexical(op, a, b) ==
  IF a.t = "string" /\ b.t = "string"
    THEN CASE op = "gt" -> StrLess(b.v, a.v)
           [] op = "gte" -> ~StrLess(a.v, b.v)
           [] op = "lt" -> StrLess(a.v, b.v)
           [] OTHER -> ~StrLess(b.v, a.v)
  ELSE LET x == ToNumber(a)
           y == ToNumber(b)
       IN IF x.nan \/ y.nan THEN FALSE
          ELSE CASE op = "gt" -> x.v > y.v
                 [] op = "gte" -> x.v >= y.v
                 [] op = "lt" -> x.v < y.v
                 [] OTHER -> x.v <= y.v

\* A comparison that takes NaN for 0.
NumCompare_nanAsZero(op, a, b) ==
  LET x == IF ToNumber(a).nan THEN 0 ELSE ToNumber(a).v
      y == IF ToNumber(b).nan THEN 0 ELSE ToNumber(b).v
  IN CASE op = "gt" -> x > y
       [] op = "gte" -> x >= y
       [] op = "lt" -> x < y
       [] OTHER -> x <= y

\* Number(a) > Number(b) and its siblings; every comparison with NaN is
\* false.
NumCompare(op, a, b) ==
  LET x == ToNumber(a)
      y == ToNumber(b)
  IN IF x.nan \/ y.nan THEN FALSE
     ELSE CASE op = "gt" -> x.v > y.v
            [] op = "gte" -> x.v >= y.v
            [] op = "lt" -> x.v < y.v
            [] OTHER -> x.v <= y.v

SemCompare(op, semResult) ==
  CASE op = "gt" -> semResult > 0
    [] op = "gte" -> semResult >= 0
    [] op = "lt" -> semResult < 0
    [] OTHER -> semResult <= 0

\* A RegExp constructor that takes every pattern literally.
RegexThrows_never(p) == FALSE

\* new RegExp(p) throws a SyntaxError: of the patterns of the model, those
\* that open with a quantifier or leave a character class unterminated.
RegexThrows(p) ==
  \/ (p # <<>> /\ Head(p) = "*")
  \/ (\E i \in 1..Len(p) : p[i] = "[" /\ ~\E j \in (i + 1)..Len(p) : p[j] = "]")

\* body (literal characters, "." for any character) matches s at offset i.
MatchAt(body, s, i) ==
  /\ i + Len(body) - 1 <= Len(s)
  /\ \A k \in 1..Len(body) : body[k] = "." \/ body[k] = s[i + k - 1]

\* new RegExp(p).test(s) for the patterns of the model: an optional leading
\* "^", literal characters and ".", an optional trailing "$".
RegexTest(p, s) ==
  LET anchoredStart == p # <<>> /\ Head(p) = "^"
      p1 == IF anchoredStart THEN Tail(p) ELSE p
      anchoredEnd == p1 # <<>> /\ p1[Len(p1)] = "$"
      body == IF anchoredEnd THEN SubSeq(p1, 1, Len(p1) - 1) ELSE p1
  IN \E i \in 1..(Len(s) + 1) :
       /\ MatchAt(body, s, i)
       /\ anchoredStart => i = 1
       /\ anchoredEnd => i + Len(body) - 1 = Len(s)

\* String(a) === String(b) with the two sides compared as values, types
\* included.
sameString_strict(a, b) == a = b

\* String(a) === String(b)
sameString(a, b) == ToStr(a) = ToStr(b)

\* conditionValue.includes(contextValue): elements compared as values, types
\* included.
includesString_strict(conditionValue, contextValue) ==
  /\ conditionValue.t = "array"
  /\ \E i \in 1..Len(conditionValue.v) : conditionValue.v[i] = contextValue

\* Array.isArray(conditionValue) &&
\*   conditionValue.map(String).includes(String(contextValue))
includesString(conditionValue, contextValue) ==
  /\ conditionValue.t = "array"
  /\ \E i \in 1..Len(conditionValue.v) :
       sameString(conditionValue.v[i], contextValue)

\* Does one condition match a context value?
matchesSingleCondition(contextValue, condition) ==
  LET operator == condition.operator
      conditionValue == condition.value
      bothSemver ==
        /\ TypeOf(contextValue) = "string"
        /\ TypeOf(conditionValue) = "string"
        /\ parseSemver(ToStr(contextValue)).ok
        /\ parseSemver(ToStr(conditionValue)).ok
  IN IF IsNullish(contextValue)
       THEN operator = "neq" \/ operator = "not_in"
     ELSE CASE operator = "eq" -> sameString(contextValue, conditionValue)
            [] operator = "neq" -> ~sameString(contextValue, conditionValue)
            [] operator \in {"gt", "gte", "lt", "lte"} ->
                 IF bothSemver
                   THEN SemCompare(operator,
                          compareSemver(ToStr(contextValue), ToStr(conditionValue)))
                   ELSE NumCompare(operator, contextValue, conditionValue)
            [] operator = "in" ->
                 IF conditionValue.t # "array" THEN FALSE
                 ELSE includesString(conditionValue, contextValue)
            [] operator = "not_in" ->
                 IF conditionValue.t # "array" THEN TRUE
                 ELSE ~includesString(conditionValue, contextValue)
            [] operator = "contains" ->
                 Includes(ToStr(contextValue), ToStr(conditionValue))
            [] operator = "regex" ->
                 IF RegexThrows(ToStr(conditionValue)) THEN FALSE
                 ELSE RegexTest(ToStr(conditionValue), ToStr(contextValue))
            [] OTHER -> FALSE

\* conditions.every(...) stops at the first condition that fails: the
\* number of conditions it evaluates, counted from position i.
RECURSIVE conditionsEvaluated(_, _, _)
conditionsEvaluated(context, conditions, i) ==
  IF i > Len(conditions) THEN 0
  ELSE IF matchesSingleCondition(
            getContextValue(context, conditions[i].field), conditions[i])
    THEN 1 + conditionsEvaluated(context, conditions, i + 1)
  ELSE 1

\* conditions.some(...) in place of conditions.every(...).
matchesConditions_some(context, conditions) ==
  IF Len(conditions) = 0 THEN TRUE
  ELSE \E i \in 1..Len(conditions) :
         matchesSingleCondition(
           getContextValue(context, conditions[i].field), conditions[i])

\* Do all conditions match (AND logic)?
matchesConditions(context, conditions) ==
  IF Len(conditions) = 0 THEN TRUE
  ELSE \A i \in 1..Len(conditions) :
         matchesSingleCondition(
           getContextValue(context, conditions[i].field), conditions[i])

\* ------------------------------------------------------------------------
\* State
\* ------------------------------------------------------------------------

VARIABLES
  hashOf,        \* the 32-bit hash, as a table over the strings hashed
  rollKey,       \* rollout runs: flag key handed to calculateRollout
  rollUser,      \* rollout runs: user id handed to calculateRollout
  rollPct,       \* rollout runs: percentage handed to calculateRollout
  rollLog,       \* rollout runs: what each call returned and hashed
  inFlag,        \* evaluation runs: the StoredFlag evaluated
  inContext,     \* evaluation runs: the evaluation context
  evalOut,       \* evaluation runs: what evaluateSingleFlag returned and did
  inCondition,   \* condition runs: the FlagCondition matched against inContext
  condOut,       \* condition runs: the context value found and what the match returned
  semA,          \* semver runs: one version string
  semB,          \* semver runs: the other version string
  semOut,        \* semver runs: what compareSemver returned, by argument pair
  store,         \* service runs: the feature_flags and feature_flag_rules tables
  cache,         \* service runs: the Redis keys, each with its value and expiry
  now,           \* service runs: the clock, in seconds
  ticks,         \* service runs: number of clock advances so far
  mutations,     \* service runs: number of store mutations so far
  storeLog,      \* service runs: the table contents replaced so far and when
  failing,       \* service runs: the backend operation that fails at present, if any
  loaders,       \* race runs: the calls in flight, each with its position and locals
  callCount,     \* service runs: number of service calls so far
  lastCall,      \* service runs: the latest service call, what it read and returned
  seen           \* service runs: per user, the latest evaluateAllFlags and what followed it

condVars == <<inCondition, condOut, semA, semB, semOut>>

pureVars ==
  <<rollKey, rollUser, rollPct, rollLog, inFlag, inContext, evalOut, condVars>>

serviceVars ==
  <<store, cache, now, ticks, mutations, storeLog, failing, loaders, callCount,
    lastCall, seen>>

vars == <<hashOf, pureVars, serviceVars>>

\* A call that has not been made yet.
NotRun == [ran |-> FALSE]

\* ------------------------------------------------------------------------
\* Rollout calculation
\* ------------------------------------------------------------------------

\* An unsigned 32-bit integer hi * 2^16 + lo, kept as its two 16-bit halves.
U32(hi, lo) == [hi |-> hi, lo |-> lo]

\* h % 100 for an unsigned 32-bit h (2^16 % 100 = 36).
Mod100(h) == (((h.hi % 100) * 36) + (h.lo % 100)) % 100

\* murmurhash3 of lib/crypto: a fixed function from strings to unsigned
\* 32-bit integers.
murmurhash3(input) == hashOf[input]

S_anonymous == <<"a", "n", "o", "n", "y", "m", "o", "u", "s">>

\* `${flagKey}:${userId}`
rolloutHashInput(flagKey, userId) == flagKey \o <<":">> \o userId

\* calculateRollout with its two boundaries off by one.
calculateRolloutRun_offByOne(flagKey, userId, percentage) ==
  IF percentage > 100 THEN [ret |-> TRUE, hashed |-> <<>>]
  ELSE IF percentage < 0 THEN [ret |-> FALSE, hashed |-> <<>>]
  ELSE LET hashInput == rolloutHashInput(flagKey, userId)
           hash == murmurhash3(hashInput)
           bucket == Mod100(hash)
       IN [ret |-> bucket <= percentage, hashed |-> <<hashInput>>]

\* calculateRollout admitting the bucket equal to the percentage.
calculateRolloutRun_inclusive(flagKey, userId, percentage) ==
  IF percentage >= 100 THEN [ret |-> TRUE, hashed |-> <<>>]
  ELSE IF percentage <= 0 THEN [ret |-> FALSE, hashed |-> <<>>]
  ELSE LET hashInput == rolloutHashInput(flagKey, userId)
           hash == murmurhash3(hashInput)
           bucket == Mod100(hash)
       IN [ret |-> bucket <= percentage, hashed |-> <<hashInput>>]

\* calculateRollout with a hash seeded by the clock.
calculateRolloutRun_clockSeed(flagKey, userId, percentage) ==
  IF percentage >= 100 THEN [ret |-> TRUE, hashed |-> <<>>]
  ELSE IF percentage <= 0 THEN [ret |-> FALSE, hashed |-> <<>>]
  ELSE LET hashInput == rolloutHashInput(flagKey, userId)
           hash == murmurhash3(hashInput)
           bucket == (Mod100(hash) + now) % 100
       IN [ret |-> bucket < percentage, hashed |-> <<hashInput>>]

\* A gate that admits the buckets at or above the percentage.
calculateRolloutRun_outside(flagKey, userId, percentage) ==
  IF percentage >= 100 THEN [ret |-> TRUE, hashed |-> <<>>]
  ELSE IF percentage <= 0 THEN [ret |-> FALSE, hashed |-> <<>>]
  ELSE LET hashInput == rolloutHashInput(flagKey, userId)
           hash == murmurhash3(hashInput)
           bucket == Mod100(hash)
       IN [ret |-> bucket >= percentage, hashed |-> <<hashInput>>]

\* calculateRollout with the strings it hashed: ret is the value returned.
calculateRolloutRun(flagKey, userId, percentage) ==
  IF percentage >= 100 THEN [ret |-> TRUE, hashed |-> <<>>]
  ELSE IF percentage <= 0 THEN [ret |-> FALSE, hashed |-> <<>>]
  ELSE LET hashInput == rolloutHashInput(flagKey, userId)
           hash == murmurhash3(hashInput)
           bucket == Mod100(hash)
       IN [ret |-> bucket < percentage, hashed |-> <<hashInput>>]

\* Does the user fall within the percentage rollout?
calculateRollout(flagKey, userId, percentage) ==
  calculateRolloutRun(flagKey, userId, percentage).ret

\* ------------------------------------------------------------------------
\* Single flag evaluation
\* ------------------------------------------------------------------------

\* !x
Falsy(x) ==
  \/ IsNullish(x)
  \/ (x.t = "boolean" /\ ~x.v)
  \/ (x.t = "number" /\ (x.nan \/ x.v = 0))
  \/ (x.t = "string" /\ x.v = <<>>)

\* The insertion of an unstable sort: a rule goes in front of the rules of
\* its own priority.
RECURSIVE InsertByPriority_tiesFirst(_, _)
InsertByPriority_tiesFirst(sorted, r) ==
  IF sorted = <<>> THEN <<r>>
  ELSE IF Head(sorted).priority - r.priority >= 0 THEN <<r>> \o sorted
  ELSE <<Head(sorted)>> \o InsertByPriority_tiesFirst(Tail(sorted), r)

\* Place of rule r in a list already sorted: behind every rule the
\* comparator a.priority - b.priority does not put after it.
RECURSIVE InsertByPriority(_, _)
InsertByPriority(sorted, r) ==
  IF sorted = <<>> THEN <<r>>
  ELSE IF Head(sorted).priority - r.priority > 0 THEN <<r>> \o sorted
  ELSE <<Head(sorted)>> \o InsertByPriority(Tail(sorted), r)

\* [...rules].sort((a, b) => a.priority - b.priority), a stable sort.
RECURSIVE sortRules(_)
sortRules(rules) ==
  IF rules = <<>> THEN <<>>
  ELSE InsertByPriority(sortRules(SubSeq(rules, 1, Len(rules) - 1)),
                        rules[Len(rules)])

S_userId == <<"u", "s", "e", "r", "I", "d">>

\* context.userId ?? 'anonymous', in the string form the template literals
\* give it.
userIdOrAnonymous(context) ==
  LET userId == GetProp(context, S_userId)
  IN IF IsNullish(userId) THEN S_anonymous ELSE ToStr(userId)

MatchedRule(flag, rule) ==
  [key |-> flag.key, value |-> rule.value, source |-> "rule",
   ruleId |-> rule.id]

\* What the scan returns at a rule: the rule when it was accepted, else
\* what the rest of the scan returns; n conditions were evaluated at the
\* rule and calls are the calculateRollout calls made at it.
ruleOutcome(flag, rule, n, rest, calls, accepted) ==
  IF accepted
    THEN [result |-> MatchedRule(flag, rule), conds |-> n, rolls |-> calls]
  ELSE [result |-> rest.result, conds |-> n + rest.conds,
        rolls |-> calls \o rest.rolls]

\* The record of one calculateRollout call.
rolloutCall(flagKey, userId, percentage, roll) ==
  [flagKey |-> flagKey, userId |-> userId, percentage |-> percentage,
   ret |-> roll.ret, hashed |-> roll.hashed]

\* calculateRollout(flag.key, userId, rule.rolloutPercentage)
rolloutGate(flag, userId, rule) ==
  rolloutCall(flag.key, userId, rule.rolloutPercentage.v,
              calculateRolloutRun(flag.key, userId, rule.rolloutPercentage.v))

gatedOutcome(flag, rule, n, rest, call) ==
  ruleOutcome(flag, rule, n, rest, <<call>>, call.ret)

\* The loop body with the rollout gate guarded by the truthiness of the
\* percentage (if (rule.rolloutPercentage)), so that 0 counts as absent.
scanStep_truthyGate(flag, context, rule, n, matches, rest) ==
  IF ~matches THEN ruleOutcome(flag, rule, n, rest, <<>>, FALSE)
  ELSE IF ~Falsy(rule.rolloutPercentage)
    THEN gatedOutcome(flag, rule, n, rest,
                      rolloutGate(flag, userIdOrAnonymous(context), rule))
  ELSE ruleOutcome(flag, rule, n, rest, <<>>, TRUE)

\* The loop body at one rule: n conditions were evaluated, matches is what
\* matchesConditions returned, rest is the scan of the rules behind it.
scanStep(flag, context, rule, n, matches, rest) ==
  IF ~matches THEN ruleOutcome(flag, rule, n, rest, <<>>, FALSE)
  ELSE IF ~IsNullish(rule.rolloutPercentage)
    THEN gatedOutcome(flag, rule, n, rest,
                      rolloutGate(flag, userIdOrAnonymous(context), rule))
  ELSE ruleOutcome(flag, rule, n, rest, <<>>, TRUE)

\* The scan of the sorted rules from position i: the result, the number of
\* conditions evaluated and the calculateRollout calls made on the way.
RECURSIVE scanRules(_, _, _, _)
scanRules(flag, context, sortedRules, i) ==
  IF i > Len(sortedRules)
    THEN [result |-> [key |-> flag.key, value |-> flag.defaultValue,
                      source |-> "default"],
          conds |-> 0, rolls |-> <<>>]
  ELSE scanStep(flag, context, sortedRules[i],
                conditionsEvaluated(context, sortedRules[i].conditions, 1),
                matchesConditions(context, sortedRules[i].conditions),
                scanRules(flag, context, sortedRules, i + 1))

\* evaluateSingleFlag testing flag.enabled === false, so that a null enabled
\* counts as enabled.
evaluateSingleFlagRun_strictFalse(flag, context) ==
  IF flag.enabled = JBool(FALSE)
    THEN [result |-> [key |-> flag.key, value |-> flag.defaultValue,
                      source |-> "disabled"],
          conds |-> 0, rolls |-> <<>>]
  ELSE scanRules(flag, context, sortRules(flag.rules), 1)

\* evaluateSingleFlag together with what it evaluated on the way.
evaluateSingleFlagRun(flag, context) ==
  IF Falsy(flag.enabled)
    THEN [result |-> [key |-> flag.key, value |-> flag.defaultValue,
                      source |-> "disabled"],
          conds |-> 0, rolls |-> <<>>]
  ELSE scanRules(flag, context, sortRules(flag.rules), 1)

\* Evaluate a single flag against the given context.
evaluateSingleFlag(flag, context) == evaluateSingleFlagRun(flag, context).result


\* ------------------------------------------------------------------------
\* Cache helpers (lib/redis.ts) over a Redis keyspace c: key -> [raw,
\* expiresAt]; the keys present are the keys not yet expired
\* ------------------------------------------------------------------------

ALL_FLAGS_CACHE_KEY == <<"f", "l", "a", "g", "s", ":", "a", "l", "l">>
ALL_FLAGS_CACHE_TTL == 300
USER_FLAGS_CACHE_TTL == 60

S_flagsUser == <<"f", "l", "a", "g", "s", ":", "u", "s", "e", "r", ":">>

\* `flags:user:${userId}`
userCacheKey(userId) == S_flagsUser \o userId

\* 'flags:user:*'
USER_FLAGS_PATTERN == S_flagsUser \o <<"*">>

\* What JSON.stringify keeps of a value: undefined and functions become
\* null inside arrays and vanish from objects, NaN becomes null.
RECURSIVE JsonValue(_)
JsonValue(x) ==
  CASE x.t = "number" -> IF x.nan THEN Null ELSE x
    [] x.t = "undefined" -> Null
    [] x.t = "function" -> Null
    [] x.t = "array" -> JArr([i \in 1..Len(x.v) |-> JsonValue(x.v[i])])
    [] x.t = "object" ->
         JObj([k \in {f \in DOMAIN x.v : x.v[f].t \notin {"undefined", "function"}}
                 |-> JsonValue(x.v[k])])
    [] OTHER -> x

JsonRule(rule) ==
  [rule EXCEPT
     !.conditions = [i \in 1..Len(rule.conditions) |->
                       [rule.conditions[i] EXCEPT !.value = JsonValue(@)]],
     !.value = JsonValue(@),
     !.rolloutPercentage = JsonValue(@)]

JsonFlag(flag) ==
  [flag EXCEPT
     !.description = JsonValue(@),
     !.type = JsonValue(@),
     !.defaultValue = JsonValue(@),
     !.enabled = JsonValue(@),
     !.rules = [i \in 1..Len(flag.rules) |-> JsonRule(flag.rules[i])]]

\* JSON.stringify of a StoredFlag[]: the text stands for the data it spells.
stringifyFlags(flags) ==
  [json |-> [i \in 1..Len(flags) |-> JsonFlag(flags[i])]]

\* JSON.stringify of a BulkFlagEvaluationResponse.
stringifyResponse(response) ==
  [json |->
     [flags |-> [k \in DOMAIN response.flags |-> JsonValue(response.flags[k])],
      details |-> [i \in 1..Len(response.details) |->
                     [response.details[i] EXCEPT !.value = JsonValue(@)]],
      evaluatedAt |-> response.evaluatedAt]]

\* JSON.parse(raw)
parseJSON(raw) == raw.json

NotCached == [found |-> FALSE]

\* A keyspace without keys.
EmptyCache == [k \in {} |-> NotCached]

\* getCache reading a keyspace other than the one setCache writes.
getCache_otherKeyspace(c, key) == NotCached

\* getCache: null when the key does not exist, the parsed value otherwise.
getCache(c, key) ==
  IF key \notin DOMAIN c THEN NotCached
  ELSE [found |-> TRUE, value |-> parseJSON(c[key].raw)]

\* setCache handing the number of seconds over as a number of minutes.
setCache_ttlAsMinutes(c, key, serialized, ttlSeconds, t) ==
  [k \in DOMAIN c \cup {key} |->
     IF k = key THEN [raw |-> serialized, expiresAt |-> t + ttlSeconds * 60]
     ELSE c[k]]

\* setCache with a positive ttlSeconds: SET key serialized EX ttlSeconds.
setCache(c, key, serialized, ttlSeconds, t) ==
  [k \in DOMAIN c \cup {key} |->
     IF k = key THEN [raw |-> serialized, expiresAt |-> t + ttlSeconds]
     ELSE c[k]]

\* deleteCache deleting every key that shares the first six characters of
\* the key ('flags:').
deleteCache_byPrefix(c, key) ==
  [k \in {x \in DOMAIN c : ~IsPrefix(SubSeq(key, 1, 6), x)} |-> c[k]]

\* deleteCache: DEL key.
deleteCache(c, key) == [k \in DOMAIN c \ {key} |-> c[k]]

\* Redis glob matching of a key against a pattern whose only special
\* character is "*".
RECURSIVE GlobMatch(_, _)
GlobMatch(pattern, key) ==
  IF pattern = <<>> THEN key = <<>>
  ELSE IF Head(pattern) = "*"
    THEN \E n \in 0..Len(key) : GlobMatch(Tail(pattern), DropN(key, n))
  ELSE key # <<>> /\ Head(key) = Head(pattern)
       /\ GlobMatch(Tail(pattern), Tail(key))

\* deleteCachePattern stopping after the first key the SCAN returns.
deleteCachePattern_firstKey(c, pattern) ==
  IF \E key \in DOMAIN c : GlobMatch(pattern, key)
    THEN [k \in DOMAIN c \ {CHOOSE key \in DOMAIN c : GlobMatch(pattern, key)}
            |-> c[k]]
  ELSE c

\* deleteCachePattern run to its end: every key the SCAN matches is deleted.
deleteCachePattern(c, pattern) ==
  [k \in {key \in DOMAIN c : ~GlobMatch(pattern, key)} |-> c[k]]

\* Redis expiry: the keys whose time to live has run out at instant t are gone.
expireKeys(c, t) == [k \in {key \in DOMAIN c : c[key].expiresAt > t} |-> c[k]]

\* ------------------------------------------------------------------------
\* Flag loading
\* ------------------------------------------------------------------------

\* db.select().from(featureFlags)
selectFlags(st) == st.flags

RowOrders(n) == {f \in [1..n -> 1..n] : \A i, j \in 1..n : i # j => f[i] # f[j]}

\* db.select().from(featureFlagRules).orderBy(priority): the rows in
\* ascending priority, rows of equal priority in an order the database picks.
selectRulesOrdered(st) ==
  {[i \in 1..Len(st.rules) |-> st.rules[f[i]]] : f \in
     {g \in RowOrders(Len(st.rules)) :
        \A i, j \in 1..Len(st.rules) :
          i < j => st.rules[g[i]].priority <= st.rules[g[j]].priority}}

\* The rules pushed to rulesByFlagId.get(flagId), in row order.
RECURSIVE rulesByFlagId(_, _)
rulesByFlagId(ruleRows, flagId) ==
  IF ruleRows = <<>> THEN <<>>
  ELSE LET rule == Head(ruleRows)
           rest == rulesByFlagId(Tail(ruleRows), flagId)
       IN IF rule.flagId = flagId
            THEN <<[id |-> rule.id, priority |-> rule.priority,
                    conditions |-> rule.conditions, value |-> rule.value,
                    rolloutPercentage |-> rule.rolloutPercentage]>> \o rest
            ELSE rest

\* The StoredFlag[] with the instant of the load stamped on every flag.
buildStoredFlags_stamped(flagRows, ruleRows) ==
  [i \in 1..Len(flagRows) |->
     [id |-> flagRows[i].id, key |-> flagRows[i].key,
      name |-> flagRows[i].name, description |-> flagRows[i].description,
      type |-> flagRows[i].type, defaultValue |-> flagRows[i].defaultValue,
      enabled |-> flagRows[i].enabled,
      rules |-> rulesByFlagId(ruleRows, flagRows[i].id),
      loadedAt |-> now]]

\* The StoredFlag[] built from the two result sets.
buildStoredFlags(flagRows, ruleRows) ==
  [i \in 1..Len(flagRows) |->
     [id |-> flagRows[i].id, key |-> flagRows[i].key,
      name |-> flagRows[i].name, description |-> flagRows[i].description,
      type |-> flagRows[i].type, defaultValue |-> flagRows[i].defaultValue,
      enabled |-> flagRows[i].enabled,
      rules |-> rulesByFlagId(ruleRows, flagRows[i].id)]]

\* What a cache miss of loadAllFlags can read from store st: the built
\* flags, one list for each order the database may return the rule rows in.
storeSnapshots(st) ==
  {buildStoredFlags(selectFlags(st), ruleRows) :
     ruleRows \in selectRulesOrdered(st)}

\* A loader that writes the snapshot back on a hit, which restarts its TTL.
loadAllFlags_refreshOnHit(c, st, t) ==
  LET cached == getCache(c, ALL_FLAGS_CACHE_KEY)
  IN IF cached.found
       THEN {[flags |-> cached.value,
              cache |-> setCache(c, ALL_FLAGS_CACHE_KEY,
                                 stringifyFlags(cached.value),
                                 ALL_FLAGS_CACHE_TTL, t),
              cacheHit |-> TRUE, storeRead |-> FALSE]}
     ELSE {[flags |-> flags,
            cache |-> setCache(c, ALL_FLAGS_CACHE_KEY, stringifyFlags(flags),
                               ALL_FLAGS_CACHE_TTL, t),
            cacheHit |-> FALSE, storeRead |-> TRUE] :
             flags \in storeSnapshots(st)}

\* The outcomes of loadAllFlags on keyspace c and store st at instant t: the
\* flags returned, the keyspace left, whether the cache answered and whether
\* the store was read.
loadAllFlags(c, st, t) ==
  LET cached == getCache(c, ALL_FLAGS_CACHE_KEY)
  IN IF cached.found
       THEN {[flags |-> cached.value, cache |-> c, cacheHit |-> TRUE,
              storeRead |-> FALSE]}
     ELSE {[flags |-> flags,
            cache |-> setCache(c, ALL_FLAGS_CACHE_KEY, stringifyFlags(flags),
                               ALL_FLAGS_CACHE_TTL, t),
            cacheHit |-> FALSE, storeRead |-> TRUE] :
             flags \in storeSnapshots(st)}

\* The backend operations that can fail: the Redis commands GET, SET and
\* DEL, the select on feature_flags and the select on feature_flag_rules.
FaultKinds ==
  {"cacheRead", "cacheWrite", "cacheDelete", "flagsFetch", "rulesFetch"}

\* A load that rejected: the awaited operation that failed, the selects
\* issued up to there, and the keyspace left.
LoadRejected(c, failedAt, fetched) ==
  [threw |-> TRUE, cache |-> c, failedAt |-> failedAt, fetched |-> fetched]

LoadReturned(load) ==
  [threw |-> FALSE, flags |-> load.flags, cache |-> load.cache,
   cacheHit |-> load.cacheHit, storeRead |-> load.storeRead]

\* A loader that catches the failure of the rules select and goes on with
\* the flags alone: the snapshot without rules is cached and returned.
loadAllFlagsUnder_partialSnapshot(down, c, st, t) ==
  IF down = "cacheRead" THEN {LoadRejected(c, "getCache", <<>>)}
  ELSE IF getCache(c, ALL_FLAGS_CACHE_KEY).found
    THEN {LoadReturned(load) : load \in loadAllFlags(c, st, t)}
  ELSE IF down = "flagsFetch"
    THEN {LoadRejected(c, "selectFlags", <<"flags">>)}
  ELSE IF down = "rulesFetch"
    THEN {[threw |-> FALSE, flags |-> buildStoredFlags(selectFlags(st), <<>>),
           cache |-> setCache(c, ALL_FLAGS_CACHE_KEY,
                              stringifyFlags(
                                buildStoredFlags(selectFlags(st), <<>>)),
                              ALL_FLAGS_CACHE_TTL, t),
           cacheHit |-> FALSE, storeRead |-> TRUE]}
  ELSE IF down = "cacheWrite"
    THEN {LoadRejected(c, "setCache", <<"flags", "rules">>)}
  ELSE {LoadReturned(load) : load \in loadAllFlags(c, st, t)}

\* loadAllFlags while the operations of kind down fail. Nothing in the
\* function catches: the first awaited operation that fails rejects the
\* load there, and what comes after it is not run. A command that fails
\* leaves the keyspace as it was.
loadAllFlagsUnder(down, c, st, t) ==
  IF down = "cacheRead" THEN {LoadRejected(c, "getCache", <<>>)}
  ELSE IF getCache(c, ALL_FLAGS_CACHE_KEY).found
    THEN {LoadReturned(load) : load \in loadAllFlags(c, st, t)}
  ELSE IF down = "flagsFetch"
    THEN {LoadRejected(c, "selectFlags", <<"flags">>)}
  ELSE IF down = "rulesFetch"
    THEN {LoadRejected(c, "selectRules", <<"flags", "rules">>)}
  ELSE IF down = "cacheWrite"
    THEN {LoadRejected(c, "setCache", <<"flags", "rules">>)}
  ELSE {LoadReturned(load) : load \in loadAllFlags(c, st, t)}

\* ------------------------------------------------------------------------
\* Public functions
\* ------------------------------------------------------------------------

\* new Date().toISOString(): the text of the instant.
toISOString(t) == <<"T">> \o NatToStr(t)

\* flags[result.key] = result.value for each detail in turn: a later detail
\* of the same key overwrites an earlier one.
flagsRecord(details) ==
  [k \in {details[i].key : i \in 1..Len(details)} |->
     LET last == CHOOSE i \in 1..Len(details) :
                   /\ details[i].key = k
                   /\ \A j \in (i + 1)..Len(details) : details[j].key # k
     IN details[last].value]

\* The response of evaluateAllFlags for the details in evaluation order.
responseOf(details, t) ==
  [flags |-> flagsRecord(details), details |-> details,
   evaluatedAt |-> toISOString(t)]

\* A bulk evaluation that leaves the disabled flags out.
buildResponse_enabledOnly(allFlags, context, t) ==
  responseOf(SelectSeq([i \in 1..Len(allFlags) |->
                          evaluateSingleFlag(allFlags[i], context)],
                       LAMBDA r : r.source # "disabled"), t)

\* The response evaluateAllFlags builds on a per-user cache miss.
buildResponse(allFlags, context, t) ==
  responseOf([i \in 1..Len(allFlags) |->
                evaluateSingleFlag(allFlags[i], context)], t)

\* A lookup that also accepts the id of a flag.
findFlag_keyOrId(allFlags, flagKey) ==
  IF \E i \in 1..Len(allFlags) :
       allFlags[i].key = flagKey \/ allFlags[i].id = flagKey
    THEN [found |-> TRUE,
          flag |-> allFlags[CHOOSE i \in 1..Len(allFlags) :
                              /\ allFlags[i].key = flagKey
                                   \/ allFlags[i].id = flagKey
                              /\ \A j \in 1..(i - 1) :
                                   /\ allFlags[j].key # flagKey
                                   /\ allFlags[j].id # flagKey]]
  ELSE [found |-> FALSE]

\* allFlags.find((f) => f.key === flagKey)
findFlag(allFlags, flagKey) ==
  IF \E i \in 1..Len(allFlags) : allFlags[i].key = flagKey
    THEN [found |-> TRUE,
          flag |-> allFlags[CHOOSE i \in 1..Len(allFlags) :
                              /\ allFlags[i].key = flagKey
                              /\ \A j \in 1..(i - 1) : allFlags[j].key # flagKey]]
  ELSE [found |-> FALSE]

UnknownFlagResult(flagKey) ==
  [key |-> flagKey, value |-> Null, source |-> "default"]

\* ------------------------------------------------------------------------
\* Inputs of the pure runs
\* ------------------------------------------------------------------------

K_f1 == <<"f", "1">>
K_f2 == <<"f", "2">>
U_u1 == <<"u", "1">>
U_u2 == <<"u", "2">>
S_tier == <<"t", "i", "e", "r">>
S_platform == <<"p", "l", "a", "t", "f", "o", "r", "m">>
S_pro == <<"p", "r", "o">>
S_free == <<"f", "r", "e", "e">>
S_enterprise == <<"e", "n", "t", "e", "r", "p", "r", "i", "s", "e">>
S_ios == <<"i", "o", "s">>
S_android == <<"a", "n", "d", "r", "o", "i", "d">>

Cond(field, operator, value) ==
  [field |-> field, operator |-> operator, value |-> value]

TierInPaid == Cond(S_tier, "in", JArr(<<JStr(S_pro), JStr(S_enterprise)>>))
PlatformIsIos == Cond(S_platform, "eq", JStr(S_ios))

RollKeys == {K_f1, K_f2}
RollUsers == {U_u1, U_u2, S_anonymous}
RollPcts == {-1, 0, 1, 50, 99, 100, 101}

\* Hash outputs tried: both ends of the unsigned 32-bit range, the values
\* around 2^31, and the buckets around each percentage.
HashValues ==
  {U32(hi, lo) : hi \in {0, 1, 32767, 32768, 65535},
                 lo \in {0, 1, 14, 49, 50, 98, 99, 100, 65535}}

\* The rules a flag of the evaluation runs is built from: priority,
\* conditions, rolloutPercentage.
RuleShapes ==
  {[priority |-> p, conditions |-> g.conditions,
    rolloutPercentage |-> g.rolloutPercentage] :
     p \in {5, 10},
     g \in {[conditions |-> <<>>, rolloutPercentage |-> Null],
            [conditions |-> <<TierInPaid>>, rolloutPercentage |-> JNum(100)],
            [conditions |-> <<TierInPaid, PlatformIsIos>>,
             rolloutPercentage |-> JNum(0)],
            [conditions |-> <<>>, rolloutPercentage |-> JNum(50)]}}
  \cup {[priority |-> 20, conditions |-> <<>>, rolloutPercentage |-> Null]}

RuleId(i) == <<"r">> \o NatToStr(i)

\* The rule lists of at most maxRules rules; the rule at position i has id
\* r<i> and value i.
RuleLists(maxRules) ==
  UNION {{[i \in 1..n |->
            [id |-> RuleId(i), priority |-> sh[i].priority,
             conditions |-> sh[i].conditions, value |-> JNum(i),
             rolloutPercentage |-> sh[i].rolloutPercentage]] :
          sh \in [1..n -> RuleShapes]} : n \in 0..maxRules}

StoredFlag(id, key, defaultValue, enabled, rules) ==
  [id |-> id, key |-> key, name |-> key, description |-> Null,
   type |-> JStr(<<"b", "o", "o", "l", "e", "a", "n">>),
   defaultValue |-> defaultValue, enabled |-> enabled, rules |-> rules]

EvalFlags(maxRules) ==
  {StoredFlag(<<"i", "1">>, K_f1, JBool(FALSE), en, rules) :
     en \in {JBool(TRUE), JBool(FALSE), Null}, rules \in RuleLists(maxRules)}

Ctx(fields) == JObj(fields)

EvalContexts ==
  {Ctx(<<>>),
   Ctx(S_tier :> JStr(S_free)),
   Ctx((S_userId :> JStr(U_u1)) @@ (S_tier :> JStr(S_pro))
       @@ (S_platform :> JStr(S_ios))),
   Ctx((S_userId :> JStr(U_u1)) @@ (S_tier :> JStr(S_pro))
       @@ (S_platform :> JStr(S_android)))}

EvalHashValues == {U32(0, 49), U32(0, 50)}

\* ------------------------------------------------------------------------
\* Pure runs: calculateRollout applied to drawn arguments (rollout runs),
\* evaluateSingleFlag applied to a drawn flag and context (evaluation runs)
\* ------------------------------------------------------------------------

\* The variables of the condition and semver runs in every other run.
CondIdle ==
  /\ inCondition = NotRun
  /\ condOut = NotRun
  /\ semA = <<>>
  /\ semB = <<>>
  /\ semOut = <<>>

\* The service variables of a pure run: no store, no cache, no call.
ServiceIdle ==
  /\ store = [flags |-> <<>>, rules |-> <<>>]
  /\ cache = EmptyCache
  /\ now = 0
  /\ ticks = 0
  /\ mutations = 0
  /\ storeLog = <<>>
  /\ failing = "none"
  /\ loaders = <<>>
  /\ callCount = 0
  /\ lastCall = NotRun
  /\ seen = <<>>

InitRollout ==
  /\ rollKey \in RollKeys
  /\ rollUser \in RollUsers
  /\ rollPct \in RollPcts
  /\ hashOf \in [{rolloutHashInput(rollKey, rollUser)} -> HashValues]
  /\ rollLog = <<>>
  /\ inFlag = NotRun
  /\ inContext = NotRun
  /\ evalOut = NotRun
  /\ CondIdle
  /\ ServiceIdle

InitEval ==
  /\ inFlag \in EvalFlags(MaxRules)
  /\ inContext \in EvalContexts
  /\ hashOf \in [{rolloutHashInput(inFlag.key, userIdOrAnonymous(inContext))}
                   -> EvalHashValues]
  /\ evalOut = NotRun
  /\ rollKey = <<>>
  /\ rollUser = <<>>
  /\ rollPct = 0
  /\ rollLog = <<>>
  /\ CondIdle
  /\ ServiceIdle

InitPure == InitRollout \/ InitEval

CallRollout ==
  /\ inFlag = NotRun
  /\ Len(rollLog) < MaxRollCalls
  /\ rollLog' = Append(rollLog, calculateRolloutRun(rollKey, rollUser, rollPct))
  /\ UNCHANGED <<hashOf, rollKey, rollUser, rollPct, inFlag, inContext, evalOut>>
  /\ UNCHANGED <<condVars, serviceVars>>

CallEvaluateSingleFlag ==
  /\ inFlag # NotRun
  /\ ~evalOut.ran
  /\ evalOut' = [ran |-> TRUE, run |-> evaluateSingleFlagRun(inFlag, inContext)]
  /\ UNCHANGED <<hashOf, rollKey, rollUser, rollPct, rollLog, inFlag, inContext>>
  /\ UNCHANGED <<condVars, serviceVars>>

NextPure == CallRollout \/ CallEvaluateSingleFlag

SpecPure == InitPure /\ [][NextPure]_vars

\* ------------------------------------------------------------------------
\* Rollout runs in which the percentage of the rule is raised between calls
\* ------------------------------------------------------------------------

\* calculateRollout(flagKey, userId, rule.rolloutPercentage), logged with the
\* percentage it was called with.
CallRolloutLogged ==
  /\ inFlag = NotRun
  /\ Len(rollLog) < MaxRollCalls
  /\ rollLog' = Append(rollLog,
                   [percentage |-> rollPct,
                    ret |-> calculateRollout(rollKey, rollUser, rollPct)])
  /\ UNCHANGED <<hashOf, rollKey, rollUser, rollPct, inFlag, inContext, evalOut>>
  /\ UNCHANGED <<condVars, serviceVars>>

\* The rule's rolloutPercentage is edited to a higher value.
RaisePercentage(q) ==
  /\ inFlag = NotRun
  /\ q > rollPct
  /\ rollPct' = q
  /\ UNCHANGED <<hashOf, rollKey, rollUser, rollLog, inFlag, inContext, evalOut>>
  /\ UNCHANGED <<condVars, serviceVars>>

NextRaise ==
  \/ CallRolloutLogged
  \/ \E q \in RollPcts : RaisePercentage(q)

SpecRaise == InitRollout /\ [][NextRaise]_vars

\* ------------------------------------------------------------------------
\* Inputs of the condition and semver runs
\* ------------------------------------------------------------------------

S_user == <<"u", "s", "e", "r">>
S_name == <<"n", "a", "m", "e">>
S_first == <<"f", "i", "r", "s", "t">>
S_v == <<"v">>

Dotted(a, b) == a \o <<".">> \o b

CondOperators ==
  {"eq", "neq", "gt", "gte", "lt", "lte", "in", "not_in", "contains", "regex"}

OrderingOperators == {"gt", "gte", "lt", "lte"}

\* Contexts with a field missing, null, or holding a string or a nested
\* object where the path goes on.
AbsenceContexts ==
  {Ctx(<<>>),
   Ctx(S_tier :> JStr(S_pro)),
   Ctx(S_tier :> Null),
   Ctx(S_user :> JObj(S_name :> JStr(S_pro))),
   Ctx(S_user :> JStr(S_pro)),
   Ctx(S_user :> Null)}

AbsenceFields ==
  {S_tier, S_user, Dotted(S_user, S_name),
   Dotted(Dotted(S_user, S_name), S_first), Dotted(S_tier, S_length),
   S_constructor, Dotted(S_user, S_toString)}

AbsenceOperands ==
  {JStr(S_pro), JStr(S_function), JArr(<<JStr(S_pro)>>), JNum(0)}

V_1_9_0 == <<"1", ".", "9", ".", "0">>
V_1_10_0 == <<"1", ".", "1", "0", ".", "0">>
V_1_9_0_beta == <<"1", ".", "9", ".", "0", "-", "b", "e", "t", "a">>
V_01_9_0 == <<"0", "1", ".", "9", ".", "0">>
V_1_9_0_4 == <<"1", ".", "9", ".", "0", ".", "4">>
V_1_9_10 == <<"1", ".", "9", ".", "1", "0">>
V_2_0_0 == <<"2", ".", "0", ".", "0">>
V_10_0_0 == <<"1", "0", ".", "0", ".", "0">>
V_1_9 == <<"1", ".", "9">>
N_10 == <<"1", "0">>
N_9 == <<"9">>

\* Values on either side of an ordering operator: semver strings, strings
\* of digits, strings that are neither, the empty string, numbers, a boolean.
OrderingValues ==
  {JStr(V_1_9_0), JStr(V_1_10_0), JStr(V_1_9_0_beta), JStr(N_10), JStr(N_9),
   JStr(S_pro), JStr(S_free), JStr(<<>>), JNum(10), JNum(9), JBool(TRUE)}

N_1 == <<"1">>
N_minus1 == <<"-", "1">>

\* Values on either side of eq and neq: a number, a boolean, null, an array
\* and an object next to the strings they turn into.
EqualityValues ==
  {JNum(1), JStr(N_1), JNum(-1), JStr(N_minus1), JBool(TRUE), JStr(S_true),
   JBool(FALSE), JStr(S_pro), JStr(S_null), JStr(<<>>), JArr(<<>>),
   JArr(<<JStr(S_pro)>>), JObj(<<>>), JStr(S_objectObject)}

EqualityOperands == EqualityValues \cup {Null}

\* Context values of the membership runs, and operands of in and not_in:
\* arrays of mixed element types, the empty array, and operands that are no
\* array.
MembershipValues ==
  {JNum(1), JStr(N_1), JBool(TRUE), JStr(S_pro), JStr(S_null)}

MembershipOperands ==
  {JArr(<<JStr(N_1)>>), JArr(<<JNum(1), JStr(S_pro)>>),
   JArr(<<JStr(S_true), Null>>), JArr(<<>>),
   JStr(S_pro), JStr(N_1), JNum(1), JBool(TRUE), JObj(<<>>), Null}

P_starPro == <<"*", "p", "r", "o">>
P_openClass == <<"[", "p", "r", "o">>

\* Operators outside the ten the matcher knows.
UnknownOperators == {"starts_with", "EQ"}

\* Conditions with a pattern that does not compile, a pattern that does, or
\* an unknown operator, and the contexts they run on: v a string, a number
\* or missing.
MalformedContexts ==
  {Ctx(S_v :> JStr(S_pro)), Ctx(S_v :> JStr(P_starPro)), Ctx(S_v :> JNum(1)),
   Ctx(<<>>)}

MalformedConditions ==
  {Cond(S_v, "regex", y) : y \in {JStr(P_starPro), JStr(P_openClass),
                                   JStr(S_pro)}}
  \cup {Cond(S_v, operator, JStr(S_pro)) : operator \in UnknownOperators}

\* The (context, condition) pairs of the condition runs.
CondInputs ==
  {<<ctx, Cond(field, operator, value)>> :
     ctx \in AbsenceContexts, field \in AbsenceFields,
     operator \in CondOperators, value \in AbsenceOperands}
  \cup
  {<<Ctx(S_v :> x), Cond(S_v, operator, y)>> :
     x \in OrderingValues, operator \in OrderingOperators,
     y \in OrderingValues}
  \cup
  {<<Ctx(S_v :> x), Cond(S_v, operator, y)>> :
     x \in EqualityValues, operator \in {"eq", "neq"},
     y \in EqualityOperands}
  \cup
  {<<Ctx(S_v :> x), Cond(S_v, operator, y)>> :
     x \in MembershipValues, operator \in {"in", "not_in"},
     y \in MembershipOperands}
  \cup (MalformedContexts \X MalformedConditions)

SemverStrings ==
  {V_1_9_0, V_1_10_0, V_1_9_0_beta, V_01_9_0, V_1_9_0_4, V_1_9_10, V_2_0_0,
   V_10_0_0, V_1_9, S_pro}

\* The variables of the rollout, evaluation and service runs in a condition
\* or semver run.
OtherRunsIdle ==
  /\ hashOf = <<>>
  /\ rollKey = <<>>
  /\ rollUser = <<>>
  /\ rollPct = 0
  /\ rollLog = <<>>
  /\ inFlag = NotRun
  /\ evalOut = NotRun
  /\ ServiceIdle

InitCond ==
  /\ \E input \in CondInputs :
       /\ inContext = input[1]
       /\ inCondition = input[2]
  /\ condOut = NotRun
  /\ semA = <<>>
  /\ semB = <<>>
  /\ semOut = <<>>
  /\ OtherRunsIdle

InitSemver ==
  /\ semA \in SemverStrings
  /\ semB \in SemverStrings
  /\ semOut = <<>>
  /\ inContext = NotRun
  /\ inCondition = NotRun
  /\ condOut = NotRun
  /\ OtherRunsIdle

InitCondRuns == InitCond \/ InitSemver

\* One turn of the callback of matchesConditions:
\* matchesSingleCondition(getContextValue(context, c.field), c)
CallMatchesSingleCondition ==
  /\ inCondition # NotRun
  /\ ~condOut.ran
  /\ \E contextValue \in {getContextValue(inContext, inCondition.field)} :
       condOut' = [ran |-> TRUE, contextValue |-> contextValue,
                   ret |-> matchesSingleCondition(contextValue, inCondition)]
  /\ UNCHANGED <<hashOf, rollKey, rollUser, rollPct, rollLog, inFlag,
                 inContext, evalOut, inCondition, semA, semB, semOut>>
  /\ UNCHANGED serviceVars

\* compareSemver(a, b)
CallCompareSemver(a, b) ==
  /\ semA # <<>>
  /\ <<a, b>> \notin DOMAIN semOut
  /\ semOut' = (<<a, b>> :> compareSemver(a, b)) @@ semOut
  /\ UNCHANGED <<hashOf, rollKey, rollUser, rollPct, rollLog, inFlag,
                 inContext, evalOut, inCondition, condOut, semA, semB>>
  /\ UNCHANGED serviceVars

NextCond ==
  \/ CallMatchesSingleCondition
  \/ \E args \in {<<semA, semB>>, <<semB, semA>>} :
       CallCompareSemver(args[1], args[2])

SpecCond == InitCondRuns /\ [][NextCond]_vars


\* ------------------------------------------------------------------------
\* Service runs: the public functions called one after the other against a
\* store that is mutated from outside and a clock that advances
\* ------------------------------------------------------------------------

FlagRow(id, key, defaultValue, enabled) ==
  [id |-> id, key |-> key, name |-> key, description |-> Null,
   type |-> JStr(<<"b", "o", "o", "l", "e", "a", "n">>),
   defaultValue |-> defaultValue, enabled |-> enabled]

RuleRow(id, flagId, priority, conditions, value, rolloutPercentage) ==
  [id |-> id, flagId |-> flagId, priority |-> priority,
   conditions |-> conditions, value |-> value,
   rolloutPercentage |-> rolloutPercentage]

I_1 == <<"i", "1">>
I_2 == <<"i", "2">>

\* Two flags, the second disabled; two rules of the first with one priority.
StoreTied ==
  [flags |-> <<FlagRow(I_1, K_f1, JBool(FALSE), JBool(TRUE)),
               FlagRow(I_2, K_f2, JStr(S_free), JBool(FALSE))>>,
   rules |-> <<RuleRow(RuleId(2), I_1, 5, <<>>, JNum(1), Null),
               RuleRow(RuleId(3), I_1, 5, <<>>, JNum(2), Null)>>]

\* One flag, one rule: tier in ['pro', 'enterprise'] behind a 50 percent
\* rollout.
StoreHalf ==
  [flags |-> <<FlagRow(I_1, K_f1, JBool(FALSE), JBool(TRUE))>>,
   rules |-> <<RuleRow(RuleId(4), I_1, 10, <<TierInPaid>>, JBool(TRUE),
                       JNum(50))>>]

StoreStates == {StoreTied, StoreHalf}

ServiceUserIds == {U_u1, S_anonymous}

CtxAnonymousFree == Ctx(S_tier :> JStr(S_free))
CtxU1Pro == Ctx((S_userId :> JStr(U_u1)) @@ (S_tier :> JStr(S_pro)))

ServiceContexts == {CtxAnonymousFree, CtxU1Pro}

\* The keys asked for: a flag key and the id of a flag, which is no key.
ServiceKeys == {K_f1, I_1}

\* The single-flag calls made: the flag for either context, the unknown key
\* for one.
ServiceFlagCalls ==
  {<<K_f1, CtxAnonymousFree>>, <<K_f1, CtxU1Pro>>, <<I_1, CtxU1Pro>>}

\* The previews made.
ServicePreviews == {<<K_f1, CtxU1Pro>>, <<I_1, CtxAnonymousFree>>}

\* The hash of the service runs: user u1 in bucket 10, 'anonymous' in 70.
ServiceHashTables ==
  {[x \in {rolloutHashInput(K_f1, u) : u \in ServiceUserIds} |->
      IF x = rolloutHashInput(K_f1, U_u1) THEN U32(0, 10) ELSE U32(0, 70)]}

\* What is remembered of the evaluateAllFlags calls for a user: nothing yet,
\* or the last result, when it was returned and until when the entry it came
\* from lives. An invalidation, or the passing of USER_FLAGS_CACHE_TTL since
\* the call, forgets the result; phase follows the sequence evaluated, store
\* changed, user invalidated.
NeverSeen == [has |-> FALSE, phase |-> "never"]

Forget(r, phase) == [has |-> FALSE, phase |-> phase]

\* Clock advances of one step.
TickSteps == {30, 270}

\* The service before its first call, the loads in flight apart.
InitService ==
  /\ hashOf \in ServiceHashTables
  /\ store \in StoreStates
  /\ cache = EmptyCache
  /\ now = 0
  /\ ticks = 0
  /\ mutations = 0
  /\ storeLog = <<>>
  /\ failing = "none"
  /\ callCount = 0
  /\ lastCall = NotRun
  /\ seen = [u \in ServiceUserIds |-> NeverSeen]
  /\ rollKey = <<>>
  /\ rollUser = <<>>
  /\ rollPct = 0
  /\ rollLog = <<>>
  /\ inFlag = NotRun
  /\ inContext = NotRun
  /\ evalOut = NotRun
  /\ CondIdle

Init == InitService /\ loaders = <<>>

\* What evaluating the flag that was looked up yields: the result of the
\* call and the calculateRollout calls made for it.
foundRun(flag, run) ==
  [found |-> TRUE, flag |-> flag, ret |-> run.result, rolls |-> run.rolls]

lookupRun(flagKey, context, found) ==
  IF ~found.found
    THEN [found |-> FALSE, flag |-> NotRun,
          ret |-> UnknownFlagResult(flagKey), rolls |-> <<>>]
  ELSE foundRun(found.flag, evaluateSingleFlagRun(found.flag, context))

\* The body of evaluateFlag behind loadAllFlags.
evaluateFlagRun(allFlags, flagKey, context) ==
  lookupRun(flagKey, context, findFlag(allFlags, flagKey))

\* What a call that went through loadAllFlags and evaluated one flag leaves
\* in lastCall.
SingleCall(op, flagKey, context, ret, load, run) ==
  [ran |-> TRUE, op |-> op, flagKey |-> flagKey, context |-> context,
   ret |-> ret, userCacheHit |-> FALSE, globalRead |-> TRUE,
   globalHit |-> load.cacheHit, storeRead |-> load.storeRead,
   found |-> run.found, flag |-> run.flag, rolls |-> run.rolls,
   threw |-> FALSE]

\* What a call that rejected leaves in lastCall: no result, the operation
\* that failed and the selects the call issued.
Rejected(op, context, failedAt, fetched) ==
  [ran |-> TRUE, op |-> op, context |-> context, threw |-> TRUE,
   failedAt |-> failedAt, fetched |-> fetched]

\* evaluateFlag(flagKey, context)
EvaluateFlag(flagKey, context) ==
  /\ callCount < MaxCalls
  /\ \E load \in loadAllFlagsUnder(failing, cache, store, now) :
       /\ cache' = load.cache
       /\ IF load.threw
            THEN lastCall' = Rejected("evaluateFlag", context, load.failedAt,
                                      load.fetched)
          ELSE \E run \in {evaluateFlagRun(load.flags, flagKey, context)} :
                 lastCall' = SingleCall("evaluateFlag", flagKey, context,
                                        run.ret, load, run)
  /\ callCount' = callCount + 1
  /\ UNCHANGED <<hashOf, pureVars, store, now, ticks, mutations, storeLog,
                 failing, loaders, seen>>

\* What lastCall and seen hold after evaluateAllFlags returned ret for
\* userId with keyspace c left behind.
evaluateAllFlagsDone(context, userId, c, ret, userCacheHit, load) ==
  /\ cache' = c
  /\ lastCall' =
       [ran |-> TRUE, op |-> "evaluateAllFlags", context |-> context,
        ret |-> ret, userCacheHit |-> userCacheHit,
        globalRead |-> ~userCacheHit, globalHit |-> load.cacheHit,
        storeRead |-> load.storeRead, phaseBefore |-> seen[userId].phase,
        seenBefore |-> seen[userId].has, threw |-> FALSE]
  /\ seen' = [seen EXCEPT ![userId] =
                [has |-> TRUE, ret |-> ret, at |-> now,
                 liveUntil |-> c[userCacheKey(userId)].expiresAt,
                 phase |-> "evaluated"]]

\* evaluateAllFlags rejected with keyspace c left behind.
evaluateAllFlagsRejected(context, c, failedAt, fetched) ==
  /\ cache' = c
  /\ lastCall' = Rejected("evaluateAllFlags", context, failedAt, fetched)
  /\ UNCHANGED seen

\* evaluateAllFlags from the per-user cache miss on: the load, the
\* evaluation of every flag and the setCache of the response.
evaluateAllFlagsMiss(context, userId) ==
  \E load \in loadAllFlagsUnder(failing, cache, store, now) :
    IF load.threw
      THEN evaluateAllFlagsRejected(context, load.cache, load.failedAt,
                                    load.fetched)
    ELSE IF failing = "cacheWrite"
      THEN evaluateAllFlagsRejected(context, load.cache, "setCache", <<>>)
    ELSE \E response \in {buildResponse(load.flags, context, now)} :
           evaluateAllFlagsDone(
             context, userId,
             setCache(load.cache, userCacheKey(userId),
                      stringifyResponse(response),
                      USER_FLAGS_CACHE_TTL, now),
             response, FALSE, load)

\* evaluateAllFlags(context)
EvaluateAllFlags(context) ==
  /\ callCount < MaxCalls
  /\ \E userId \in {userIdOrAnonymous(context)} :
       IF failing = "cacheRead"
         THEN evaluateAllFlagsRejected(context, cache, "getCache", <<>>)
       ELSE \E cached \in {getCache(cache, userCacheKey(userId))} :
              IF cached.found
                THEN evaluateAllFlagsDone(
                       context, userId, cache, cached.value, TRUE,
                       [cacheHit |-> FALSE, storeRead |-> FALSE])
              ELSE evaluateAllFlagsMiss(context, userId)
  /\ callCount' = callCount + 1
  /\ UNCHANGED <<hashOf, pureVars, store, now, ticks, mutations, storeLog,
                 failing, loaders>>

\* invalidateFlagCaches()
InvalidateFlagCaches ==
  /\ callCount < MaxCalls
  /\ IF failing = "cacheDelete"
       THEN /\ cache' = cache
            /\ lastCall' = Rejected("invalidateFlagCaches", NotRun, "del", <<>>)
            /\ UNCHANGED seen
     ELSE /\ cache' = deleteCachePattern(
                        deleteCache(cache, ALL_FLAGS_CACHE_KEY),
                        USER_FLAGS_PATTERN)
          /\ lastCall' = [ran |-> TRUE, op |-> "invalidateFlagCaches",
                          removed |-> DOMAIN cache \ DOMAIN cache',
                          threw |-> FALSE]
          /\ seen' = [u \in DOMAIN seen |-> Forget(seen[u], seen[u].phase)]
  /\ callCount' = callCount + 1
  /\ UNCHANGED <<hashOf, pureVars, store, now, ticks, mutations, storeLog,
                 failing, loaders>>

\* invalidateUserFlagCache deleting `flags:${userId}`, a key nothing writes.
InvalidateUserFlagCache_wrongKey(userId) ==
  /\ callCount < MaxCalls
  /\ IF failing = "cacheDelete"
       THEN /\ cache' = cache
            /\ lastCall' = Rejected("invalidateUserFlagCache", NotRun, "del",
                                    <<>>)
            /\ UNCHANGED seen
     ELSE /\ cache' = deleteCache(cache, <<"f", "l", "a", "g", "s", ":">> \o userId)
          /\ lastCall' = [ran |-> TRUE, op |-> "invalidateUserFlagCache",
                          userId |-> userId,
                          removed |-> DOMAIN cache \ DOMAIN cache',
                          threw |-> FALSE]
          /\ seen' = [seen EXCEPT ![userId] =
                        Forget(@, IF @.phase = "changed" THEN "invalidated"
                                  ELSE @.phase)]
  /\ callCount' = callCount + 1
  /\ UNCHANGED <<hashOf, pureVars, store, now, ticks, mutations, storeLog,
                 failing, loaders>>

\* invalidateUserFlagCache(userId)
InvalidateUserFlagCache(userId) ==
  /\ callCount < MaxCalls
  /\ IF failing = "cacheDelete"
       THEN /\ cache' = cache
            /\ lastCall' = Rejected("invalidateUserFlagCache", NotRun, "del",
                                    <<>>)
            /\ UNCHANGED seen
     ELSE /\ cache' = deleteCache(cache, userCacheKey(userId))
          /\ lastCall' = [ran |-> TRUE, op |-> "invalidateUserFlagCache",
                          userId |-> userId,
                          removed |-> DOMAIN cache \ DOMAIN cache',
                          threw |-> FALSE]
          /\ seen' = [seen EXCEPT ![userId] =
                        Forget(@, IF @.phase = "changed" THEN "invalidated"
                                  ELSE @.phase)]
  /\ callCount' = callCount + 1
  /\ UNCHANGED <<hashOf, pureVars, store, now, ticks, mutations, storeLog,
                 failing, loaders>>

\* The preview result built field by field, without the ruleId.
previewResult_noRuleId(flagKey, run) ==
  IF ~run.found
    THEN [key |-> flagKey, value |-> Null, source |-> "default",
          flag |-> Null]
  ELSE [key |-> run.ret.key, value |-> run.ret.value,
        source |-> run.ret.source, flag |-> run.flag]

\* { ...result, flag }, or the null default with flag: null.
previewResult(flagKey, run) ==
  IF ~run.found
    THEN [key |-> flagKey, value |-> Null, source |-> "default",
          flag |-> Null]
  ELSE [f \in DOMAIN run.ret \cup {"flag"} |->
          IF f = "flag" THEN run.flag ELSE run.ret[f]]

\* previewFlagEvaluation(flagKey, context)
PreviewFlagEvaluation(flagKey, context) ==
  /\ callCount < MaxCalls
  /\ \E load \in loadAllFlagsUnder(failing, cache, store, now) :
       /\ cache' = load.cache
       /\ IF load.threw
            THEN lastCall' = Rejected("previewFlagEvaluation", context,
                                      load.failedAt, load.fetched)
          ELSE \E run \in {evaluateFlagRun(load.flags, flagKey, context)} :
                 lastCall' = SingleCall("previewFlagEvaluation", flagKey,
                                        context, previewResult(flagKey, run),
                                        load, run)
  /\ callCount' = callCount + 1
  /\ UNCHANGED <<hashOf, pureVars, store, now, ticks, mutations, storeLog,
                 failing, loaders, seen>>

\* The administrative path rewrites the tables; the engine is not told.
\* Followed while a call can still observe it.
rewriteTables(newStore) ==
  /\ mutations < MaxMutations
  /\ callCount < MaxCalls
  /\ newStore # store
  /\ store' = newStore
  /\ mutations' = mutations + 1
  /\ seen' = [u \in DOMAIN seen |->
                IF seen[u].phase = "evaluated"
                  THEN [seen[u] EXCEPT !.phase = "changed"]
                ELSE seen[u]]
  /\ UNCHANGED <<hashOf, pureVars, cache, now, ticks, failing, loaders,
                 callCount, lastCall>>

MutateStore(newStore) == rewriteTables(newStore) /\ UNCHANGED storeLog

\* The same rewrite in the runs that keep the history of the tables: the
\* contents replaced are logged with the instant of the rewrite.
MutateStoreLogged(newStore) ==
  /\ rewriteTables(newStore)
  /\ storeLog' = Append(storeLog, [store |-> store, until |-> now])

\* Time passes; Redis drops the keys that expire. Followed while a key is
\* cached, as the runs with an empty keyspace are the same up to a shift of
\* the clock, and while a call can still observe it.
Tick(d) ==
  /\ ticks < MaxTicks
  /\ callCount < MaxCalls
  /\ cache # EmptyCache
  /\ ticks' = ticks + 1
  /\ now' = now + d
  /\ cache' = expireKeys(cache, now + d)
  /\ seen' = [u \in DOMAIN seen |->
                IF seen[u].has /\ now + d >= seen[u].at + USER_FLAGS_CACHE_TTL
                  THEN Forget(seen[u], seen[u].phase)
                ELSE seen[u]]
  /\ UNCHANGED <<hashOf, pureVars, store, mutations, storeLog, failing,
                 loaders, callCount, lastCall>>

Next ==
  \/ \E c \in ServiceFlagCalls : EvaluateFlag(c[1], c[2])
  \/ \E ctx \in ServiceContexts : EvaluateAllFlags(ctx)
  \/ InvalidateFlagCaches
  \/ \E u \in ServiceUserIds : InvalidateUserFlagCache(u)
  \/ \E c \in ServicePreviews : PreviewFlagEvaluation(c[1], c[2])
  \/ \E st \in StoreStates : MutateStore(st)
  \/ \E d \in TickSteps : Tick(d)

Spec == Init /\ [][Next]_vars

\* The service with the history of its tables kept. previewFlagEvaluation
\* reads and writes the cache as evaluateFlag does and is left out.
NextLogged ==
  \/ EvaluateFlag(K_f1, CtxU1Pro)
  \/ \E ctx \in ServiceContexts : EvaluateAllFlags(ctx)
  \/ InvalidateFlagCaches
  \/ \E u \in ServiceUserIds : InvalidateUserFlagCache(u)
  \/ \E st \in StoreStates : MutateStoreLogged(st)
  \/ \E d \in TickSteps : Tick(d)

SpecLogged == Init /\ [][NextLogged]_vars

\* A backend operation starts or stops failing. Followed while a call can
\* still observe it.
SetFailing(kind) ==
  /\ callCount < MaxCalls
  /\ kind # failing
  /\ failing' = kind
  /\ UNCHANGED <<hashOf, pureVars, store, cache, now, ticks, mutations,
                 storeLog, loaders, callCount, lastCall, seen>>

\* The service with backend operations that fail from time to time, on
\* tables that are not rewritten.
NextFaults ==
  \/ \E c \in ServiceFlagCalls : EvaluateFlag(c[1], c[2])
  \/ \E ctx \in ServiceContexts : EvaluateAllFlags(ctx)
  \/ InvalidateFlagCaches
  \/ \E u \in ServiceUserIds : InvalidateUserFlagCache(u)
  \/ \E c \in ServicePreviews : PreviewFlagEvaluation(c[1], c[2])
  \/ \E kind \in FaultKinds \cup {"none"} : SetFailing(kind)
  \/ \E d \in TickSteps : Tick(d)

SpecFaults == Init /\ [][NextFaults]_vars

\* ------------------------------------------------------------------------
\* Race runs: two loadAllFlags calls in flight at once, each advancing from
\* one awaited operation to the next, against a store that is rewritten
\* and a clock that advances
\* ------------------------------------------------------------------------

Loaders == {1, 2}

\* A load about to read 'flags:all': nothing fetched, nothing written.
LoaderStart ==
  [pc |-> "getCache", flagRows |-> <<>>, ruleRows |-> <<>>,
   sawFlags |-> NotRun, sawRules |-> NotRun, wrote |-> FALSE,
   written |-> <<>>, returned |-> <<>>]

InitRace == InitService /\ loaders = [p \in Loaders |-> LoaderStart]

raceFrame ==
  UNCHANGED <<hashOf, pureVars, store, now, ticks, mutations, storeLog,
              failing, callCount, lastCall, seen>>

\* const cached = await getCache(ALL_FLAGS_CACHE_KEY); if (cached) return cached
LoadGetCache(p) ==
  /\ loaders[p].pc = "getCache"
  /\ \E cached \in {getCache(cache, ALL_FLAGS_CACHE_KEY)} :
       loaders' = [loaders EXCEPT ![p] =
                     IF cached.found
                       THEN [@ EXCEPT !.pc = "done", !.returned = cached.value]
                     ELSE [@ EXCEPT !.pc = "selectFlags"]]
  /\ UNCHANGED cache
  /\ raceFrame

\* const flagRows = await db.select().from(featureFlags)
LoadSelectFlags(p) ==
  /\ loaders[p].pc = "selectFlags"
  /\ loaders' = [loaders EXCEPT ![p] =
                   [@ EXCEPT !.pc = "selectRules",
                             !.flagRows = selectFlags(store),
                             !.sawFlags = store]]
  /\ UNCHANGED cache
  /\ raceFrame

\* const ruleRows = await db.select().from(featureFlagRules).orderBy(priority)
LoadSelectRules(p) ==
  /\ loaders[p].pc = "selectRules"
  /\ \E ruleRows \in selectRulesOrdered(store) :
       loaders' = [loaders EXCEPT ![p] =
                     [@ EXCEPT !.pc = "setCache", !.ruleRows = ruleRows,
                               !.sawRules = store]]
  /\ UNCHANGED cache
  /\ raceFrame

\* The flags are built from the rows held and written:
\* await setCache(ALL_FLAGS_CACHE_KEY, flags, ALL_FLAGS_CACHE_TTL); return flags
LoadSetCache(p) ==
  /\ loaders[p].pc = "setCache"
  /\ \E flags \in {buildStoredFlags(loaders[p].flagRows, loaders[p].ruleRows)} :
       /\ cache' = setCache(cache, ALL_FLAGS_CACHE_KEY, stringifyFlags(flags),
                            ALL_FLAGS_CACHE_TTL, now)
       /\ loaders' = [loaders EXCEPT ![p] =
                        [@ EXCEPT !.pc = "done", !.wrote = TRUE,
                                  !.written = flags, !.returned = flags]]
  /\ raceFrame

NextRace ==
  \/ \E p \in Loaders : LoadGetCache(p)
  \/ \E p \in Loaders : LoadSelectFlags(p)
  \/ \E p \in Loaders : LoadSelectRules(p)
  \/ \E p \in Loaders : LoadSetCache(p)
  \/ \E st \in StoreStates : MutateStore(st)
  \/ \E d \in TickSteps : Tick(d)

SpecRace == InitRace /\ [][NextRace]_vars

\* ------------------------------------------------------------------------
\* Shared-id runs: evaluateAllFlags called for contexts that share a userId,
\* or lack one alike, and differ in tier
\* ------------------------------------------------------------------------

CtxU1Free == Ctx((S_userId :> JStr(U_u1)) @@ (S_tier :> JStr(S_free)))
CtxAnonymousPro == Ctx(S_tier :> JStr(S_pro))

SharedIdContexts == {CtxU1Pro, CtxU1Free, CtxAnonymousFree, CtxAnonymousPro}

NextShared ==
  \/ \E ctx \in SharedIdContexts : EvaluateAllFlags(ctx)
  \/ \E u \in ServiceUserIds : InvalidateUserFlagCache(u)
  \/ \E d \in TickSteps : Tick(d)

SpecShared == Init /\ [][NextShared]_vars

\* ------------------------------------------------------------------------
\* Invalidation runs: a loadAllFlags call in flight while the tables are
\* rewritten and invalidateFlagCaches runs, one awaited operation at a time;
\* evaluateFlag and evaluateAllFlags are called around them. The clock stands
\* still: no entry expires
\* ------------------------------------------------------------------------

\* The loadAllFlags call in flight and the invalidateFlagCaches call.
StaleLoader == "loadAllFlags"
Invalidator == "invalidateFlagCaches"

\* invalidateFlagCaches not called yet.
InvalidateStart == [pc |-> "idle", mutationsAtCall |-> 0]

InitStale ==
  /\ InitService
  /\ loaders = (StaleLoader :> LoaderStart) @@ (Invalidator :> InvalidateStart)

\* invalidateFlagCaches() is called; the number of rewrites of the tables
\* made by then is kept.
InvalidateCalled ==
  /\ loaders[Invalidator].pc = "idle"
  /\ loaders' = [loaders EXCEPT ![Invalidator] =
                   [pc |-> "deleteCache", mutationsAtCall |-> mutations]]
  /\ UNCHANGED cache
  /\ raceFrame

\* await deleteCache(ALL_FLAGS_CACHE_KEY)
InvalidateDeleteCache ==
  /\ loaders[Invalidator].pc = "deleteCache"
  /\ cache' = deleteCache(cache, ALL_FLAGS_CACHE_KEY)
  /\ loaders' = [loaders EXCEPT ![Invalidator].pc = "deleteCachePattern"]
  /\ raceFrame

\* await deleteCachePattern(USER_FLAGS_PATTERN), and the call returns.
InvalidateDeletePattern ==
  /\ loaders[Invalidator].pc = "deleteCachePattern"
  /\ cache' = deleteCachePattern(cache, USER_FLAGS_PATTERN)
  /\ loaders' = [loaders EXCEPT ![Invalidator].pc = "done"]
  /\ raceFrame

NextStale ==
  \/ LoadGetCache(StaleLoader)
  \/ LoadSelectFlags(StaleLoader)
  \/ LoadSelectRules(StaleLoader)
  \/ LoadSetCache(StaleLoader)
  \/ \E st \in StoreStates : MutateStore(st)
  \/ InvalidateCalled
  \/ InvalidateDeleteCache
  \/ InvalidateDeletePattern
  \/ EvaluateFlag(K_f1, CtxU1Pro)
  \/ EvaluateAllFlags(CtxU1Pro)

SpecStale == InitStale /\ [][NextStale]_vars

\* ------------------------------------------------------------------------
\* What the properties below are stated with
\* ------------------------------------------------------------------------

FlagEnabled(flag) == flag.enabled = JBool(TRUE)

\* The ruleId of a result, the empty string for a result without one.
ResultRuleId(result) ==
  IF "ruleId" \in DOMAIN result THEN result.ruleId ELSE <<>>

FlagDisabled(flag) == flag.enabled = JBool(FALSE) \/ flag.enabled = Null

\* The user id a context stands for: its userId, 'anonymous' without one.
ExpectedUser(context) ==
  IF S_userId \in DOMAIN context.v THEN context.v[S_userId].v ELSE S_anonymous

\* The value of an unsigned 32-bit integer modulo 100.
Bucket32(h) == ((h.hi % 100) * 65536 + h.lo) % 100

\* The rollout hasher accepts (flagKey, userId, percentage).
GateAccepts(flagKey, userId, percentage) ==
  \/ percentage >= 100
  \/ /\ percentage > 0
     /\ Bucket32(hashOf[flagKey \o <<":">> \o userId]) < percentage

CondsHold(context, rule) ==
  \A i \in 1..Len(rule.conditions) :
    matchesSingleCondition(
      getContextValue(context, rule.conditions[i].field), rule.conditions[i])

\* The rule survives its conditions and its rollout gate.
RuleSurvives(flag, context, rule) ==
  /\ CondsHold(context, rule)
  /\ rule.rolloutPercentage # Null =>
       GateAccepts(flag.key, ExpectedUser(context), rule.rolloutPercentage.v)

\* Rule i comes before rule j in ascending priority order, equal priorities
\* in their original order.
ComesBefore(rules, i, j) ==
  \/ rules[i].priority < rules[j].priority
  \/ (rules[i].priority = rules[j].priority /\ i < j)

\* Rule i is the first surviving rule of the flag in that order.
IsFirstSurvivor(flag, context, i) ==
  /\ RuleSurvives(flag, context, flag.rules[i])
  /\ \A j \in 1..Len(flag.rules) :
       (j # i /\ RuleSurvives(flag, context, flag.rules[j]))
         => ComesBefore(flag.rules, i, j)

NoRuleSurvives(flag, context) ==
  \A i \in 1..Len(flag.rules) : ~RuleSurvives(flag, context, flag.rules[i])

\* ------------------------------------------------------------------------
\* Properties
\* ------------------------------------------------------------------------

\* C1: for an enabled flag, evaluateSingleFlag returns the value and id of
\* the first rule, in ascending priority order with equal priorities in
\* their original order, that survives its conditions and its rollout gate,
\* whatever order the rules are stored in.
C1_FirstSurvivorWins ==
  (evalOut.ran /\ FlagEnabled(inFlag)) =>
    \A i \in 1..Len(inFlag.rules) :
      IsFirstSurvivor(inFlag, inContext, i) =>
        evalOut.run.result =
          [key |-> inFlag.key, value |-> inFlag.rules[i].value,
           source |-> "rule", ruleId |-> inFlag.rules[i].id]

\* The second stored rule wins over the first stored rule (a later
\* priority) and over the third (its own priority), both surviving.
C1_Witness ==
  /\ evalOut.ran
  /\ FlagEnabled(inFlag)
  /\ Len(inFlag.rules) = 3
  /\ \A i \in 1..3 : RuleSurvives(inFlag, inContext, inFlag.rules[i])
  /\ inFlag.rules[1].priority > inFlag.rules[2].priority
  /\ inFlag.rules[3].priority = inFlag.rules[2].priority
  /\ evalOut.run.result.source = "rule"
  /\ evalOut.run.result.ruleId = RuleId(2)

\* C2: a flag whose enabled is false or null evaluates to its default value
\* with source 'disabled' and no ruleId, whatever its rules and the context,
\* and evaluates no condition and no rollout on the way.
C2_DisabledShortCircuit ==
  (evalOut.ran /\ FlagDisabled(inFlag)) =>
    /\ evalOut.run.result =
         [key |-> inFlag.key, value |-> inFlag.defaultValue,
          source |-> "disabled"]
    /\ evalOut.run.conds = 0
    /\ evalOut.run.rolls = <<>>

\* A flag with enabled null, one of whose rules would survive.
C2_Witness ==
  /\ evalOut.ran
  /\ inFlag.enabled = Null
  /\ \E i \in 1..Len(inFlag.rules) :
       RuleSurvives(inFlag, inContext, inFlag.rules[i])
  /\ evalOut.run.result.source = "disabled"

\* C3: an enabled flag none of whose rules survives (a flag without rules
\* included) evaluates to its default value with source 'default' and no
\* ruleId; a result carries a ruleId only when its source is 'rule'.
C3_DefaultWhenNoSurvivor ==
  evalOut.ran =>
    /\ (FlagEnabled(inFlag) /\ NoRuleSurvives(inFlag, inContext)) =>
         evalOut.run.result =
           [key |-> inFlag.key, value |-> inFlag.defaultValue,
            source |-> "default"]
    /\ "ruleId" \in DOMAIN evalOut.run.result =>
         evalOut.run.result.source = "rule"

\* An enabled flag with rules, one of which passes its conditions and is
\* stopped by its rollout gate alone, evaluates to the default.
C3_Witness ==
  /\ evalOut.ran
  /\ FlagEnabled(inFlag)
  /\ Len(inFlag.rules) > 0
  /\ NoRuleSurvives(inFlag, inContext)
  /\ \E i \in 1..Len(inFlag.rules) : CondsHold(inContext, inFlag.rules[i])
  /\ evalOut.run.result.source = "default"

\* C5: a rule counts as matched iff all its conditions match (none is all)
\* and, with a non-null rolloutPercentage, the hasher accepts (flag.key,
\* userId or 'anonymous', percentage): a rule is returned only if it
\* survives both, some rule is returned as soon as one survives, every
\* rollout call is made for (flag.key, userId or 'anonymous') and for a rule
\* whose conditions match.
C5_RuleMatchesIffCondsAndGate ==
  (evalOut.ran /\ FlagEnabled(inFlag)) =>
    /\ evalOut.run.result.source = "rule" <=>
         \E i \in 1..Len(inFlag.rules) :
           RuleSurvives(inFlag, inContext, inFlag.rules[i])
    /\ evalOut.run.result.source = "rule" =>
         \E i \in 1..Len(inFlag.rules) :
           /\ inFlag.rules[i].id = evalOut.run.result.ruleId
           /\ inFlag.rules[i].value = evalOut.run.result.value
           /\ RuleSurvives(inFlag, inContext, inFlag.rules[i])
    /\ \A c \in 1..Len(evalOut.run.rolls) :
         /\ evalOut.run.rolls[c].flagKey = inFlag.key
         /\ evalOut.run.rolls[c].userId = ExpectedUser(inContext)
         /\ \E i \in 1..Len(inFlag.rules) :
              /\ inFlag.rules[i].rolloutPercentage # Null
              /\ inFlag.rules[i].rolloutPercentage.v
                   = evalOut.run.rolls[c].percentage
              /\ CondsHold(inContext, inFlag.rules[i])

\* Without a userId and with tier 'free', a rule with the condition tier in
\* ['pro', 'enterprise'] and rollout 100 is passed over and a rule behind a
\* 50 percent rollout is returned for 'anonymous'.
C5_Witness ==
  /\ evalOut.ran
  /\ FlagEnabled(inFlag)
  /\ inContext = Ctx(S_tier :> JStr(S_free))
  /\ \E i \in 1..Len(inFlag.rules) :
       /\ inFlag.rules[i].conditions = <<TierInPaid>>
       /\ inFlag.rules[i].rolloutPercentage = JNum(100)
       /\ inFlag.rules[i].priority = 5
  /\ evalOut.run.result.source = "rule"
  /\ Len(evalOut.run.rolls) = 1
  /\ evalOut.run.rolls[1].userId = S_anonymous
  /\ evalOut.run.rolls[1].percentage = 50
  /\ evalOut.run.rolls[1].ret

\* C6: calculateRollout is true for every percentage >= 100 and false for
\* every percentage <= 0, whatever the flag key, the user id and the hash;
\* so a rule with rolloutPercentage 0 is never returned and one with
\* rolloutPercentage 100 is returned whenever it is the first whose
\* conditions match.
C6_RolloutBoundaries ==
  /\ \A c \in 1..Len(rollLog) :
       /\ rollPct >= 100 => rollLog[c].ret
       /\ rollPct <= 0 => ~rollLog[c].ret
  /\ evalOut.ran =>
       /\ \A c \in 1..Len(evalOut.run.rolls) :
            /\ evalOut.run.rolls[c].percentage >= 100 => evalOut.run.rolls[c].ret
            /\ evalOut.run.rolls[c].percentage <= 0 => ~evalOut.run.rolls[c].ret
       /\ \A i \in 1..Len(inFlag.rules) :
            /\ (/\ evalOut.run.result.source = "rule"
                /\ evalOut.run.result.ruleId = inFlag.rules[i].id)
                 => inFlag.rules[i].rolloutPercentage # JNum(0)
            /\ (/\ FlagEnabled(inFlag)
                /\ inFlag.rules[i].rolloutPercentage = JNum(100)
                /\ CondsHold(inContext, inFlag.rules[i])
                /\ \A j \in 1..Len(inFlag.rules) :
                     (j # i /\ CondsHold(inContext, inFlag.rules[j]))
                       => ComesBefore(inFlag.rules, i, j))
                 => ResultRuleId(evalOut.run.result) = inFlag.rules[i].id

\* A call with percentage 0 and a hash whose bucket is 0.
C6_Witness ==
  /\ Len(rollLog) > 0
  /\ rollPct = 0
  /\ Bucket32(hashOf[rollKey \o <<":">> \o rollUser]) = 0
  /\ ~rollLog[1].ret

\* C7: for 0 < percentage < 100, calculateRollout hashes the string
\* '<flagKey>:<userId>' and nothing else, the hash modulo 100 is a bucket
\* in 0..99 for every hash output, and the call returns bucket < percentage.
C7_RolloutBucket ==
  \A c \in 1..Len(rollLog) :
    (0 < rollPct /\ rollPct < 100) =>
      /\ rollLog[c].hashed = <<rollKey \o <<":">> \o rollUser>>
      /\ Bucket32(murmurhash3(rollLog[c].hashed[1])) \in 0..99
      /\ rollLog[c].ret
           = (Bucket32(murmurhash3(rollLog[c].hashed[1])) < rollPct)

\* A call with percentage 50 and the hash 2^16 + 14, whose bucket is 50,
\* the percentage itself: the user is outside the rollout.
C7_Witness ==
  /\ Len(rollLog) > 0
  /\ rollPct = 50
  /\ hashOf[rollKey \o <<":">> \o rollUser] = U32(1, 14)
  /\ ~rollLog[1].ret

\* The step is a service call.
CallStep == callCount' = callCount + 1

\* The keys of the flag set loadAllFlags returns in the current state.
LoadedKeys ==
  LET cached == getCache(cache, ALL_FLAGS_CACHE_KEY)
  IN IF cached.found
       THEN {cached.value[i].key : i \in 1..Len(cached.value)}
     ELSE {store.flags[i].key : i \in 1..Len(store.flags)}

\* The bulk result is what no reading of the store evaluates to for the
\* context.
StaleForStore(ret, context) ==
  \A flags \in storeSnapshots(store) :
    ret.details # buildResponse(flags, context, 0).details

\* C4: evaluateFlag for a key that is not in the loaded flag set returns
\* {key: the requested key, value: null, source: 'default'}; the lookup is
\* by key, so asking for the id of a loaded flag is asking for an unknown
\* key.
C4_UnknownKeySoftDefault ==
  [][(/\ CallStep
      /\ lastCall'.op = "evaluateFlag"
      /\ lastCall'.flagKey \notin LoadedKeys)
       => lastCall'.ret =
            [key |-> lastCall'.flagKey, value |-> Null, source |-> "default"]]_vars

\* evaluateFlag was asked for the id of a flag of the store and returned the
\* null default.
C4_Witness ==
  /\ lastCall.ran
  /\ lastCall.op = "evaluateFlag"
  /\ lastCall.flagKey = I_1
  /\ \E i \in 1..Len(store.flags) : store.flags[i].id = I_1
  /\ mutations = 0
  /\ lastCall.ret = [key |-> I_1, value |-> Null, source |-> "default"]

NextAfterInvalidateUser ==
  /\ CallStep
  /\ lastCall'.op = "evaluateAllFlags"
  /\ seen[userIdOrAnonymous(lastCall'.context)].phase = "invalidated"

\* C9 as stated: after a first evaluateAllFlags(ctx), a change of the store
\* and invalidateUserFlagCache(ctx.userId), the next evaluateAllFlags(ctx)
\* recomputes the bulk result and the result reflects the store's new state.
C9_Original ==
  [][NextAfterInvalidateUser =>
       /\ ~lastCall'.userCacheHit
       /\ \E flags \in storeSnapshots(store) :
            lastCall'.ret = buildResponse(flags, lastCall'.context, now)]_vars

\* C9 amended: that call recomputes the bulk result from the flag set
\* loadAllFlags returns, which is the cached global snapshot while
\* 'flags:all' is present and the store's new state only when it is absent.
C9_RecomputesFromLoadedFlags ==
  [][NextAfterInvalidateUser =>
       /\ ~lastCall'.userCacheHit
       /\ IF ALL_FLAGS_CACHE_KEY \in DOMAIN cache
            THEN lastCall'.ret =
                   buildResponse(parseJSON(cache[ALL_FLAGS_CACHE_KEY].raw),
                                 lastCall'.context, now)
          ELSE \E flags \in storeSnapshots(store) :
                 lastCall'.ret = buildResponse(flags, lastCall'.context, now)]_vars

\* Such a call recomputed from the cached global snapshot and returned what
\* the store no longer yields.
C9_Witness ==
  /\ lastCall.ran
  /\ lastCall.op = "evaluateAllFlags"
  /\ lastCall.phaseBefore = "invalidated"
  /\ ~lastCall.userCacheHit
  /\ lastCall.globalHit
  /\ mutations = 1
  /\ StaleForStore(lastCall.ret, lastCall.context)

\* An evaluateAllFlags call for a user for whom an earlier one was made and
\* no invalidation since.
RepeatedCall(u) ==
  /\ CallStep
  /\ lastCall'.op = "evaluateAllFlags"
  /\ userIdOrAnonymous(lastCall'.context) = u
  /\ seen[u].has

ReturnsTheSame(u) ==
  /\ lastCall'.ret = seen[u].ret
  /\ ~lastCall'.storeRead
  /\ ~lastCall'.globalRead

\* C10 as stated: two sequential evaluateAllFlags calls for one userId less
\* than 60 s apart, with no invalidation between them, return identical
\* results, and the second reads neither the store nor the global snapshot.
C10_Original ==
  [][\A u \in ServiceUserIds :
       (RepeatedCall(u) /\ now - seen[u].at < USER_FLAGS_CACHE_TTL)
         => ReturnsTheSame(u)]_vars

\* C10 amended: the same holds when the second call is made before the
\* per-user entry that the first call wrote or was served from expires,
\* 60 s after that entry was written.
C10_SameWithinEntryLifetime ==
  [][\A u \in ServiceUserIds :
       (RepeatedCall(u) /\ now < seen[u].liveUntil) => ReturnsTheSame(u)]_vars

\* A second call served from the per-user entry after the store changed: it
\* returned what the store no longer yields.
C10_Witness ==
  /\ lastCall.ran
  /\ lastCall.op = "evaluateAllFlags"
  /\ lastCall.userCacheHit
  /\ lastCall.phaseBefore = "changed"
  /\ lastCall.seenBefore
  /\ mutations = 1
  /\ StaleForStore(lastCall.ret, lastCall.context)

\* The per-user entries of a keyspace.
UserEntries(c) == [k \in {x \in DOMAIN c : IsPrefix(S_flagsUser, x)} |-> c[k]]

\* C11: when invalidateFlagCaches has completed, 'flags:all' and every
\* 'flags:user:*' entry are absent from the cache, and an evaluateFlag or
\* evaluateAllFlags that is the next call reads the store and returns what
\* the store yields.
C11_InvalidateAllThenFresh ==
  [][/\ (CallStep /\ lastCall'.op = "invalidateFlagCaches") =>
          /\ ALL_FLAGS_CACHE_KEY \notin DOMAIN cache'
          /\ UserEntries(cache') = <<>>
     /\ (/\ CallStep
         /\ lastCall.ran
         /\ lastCall.op = "invalidateFlagCaches"
         /\ lastCall'.op \in {"evaluateFlag", "evaluateAllFlags"}) =>
          /\ lastCall'.storeRead
          /\ ~lastCall'.globalHit
          /\ ~lastCall'.userCacheHit
          /\ \E flags \in storeSnapshots(store) :
               IF lastCall'.op = "evaluateAllFlags"
                 THEN lastCall'.ret =
                        buildResponse(flags, lastCall'.context, now)
               ELSE lastCall'.ret =
                      evaluateFlagRun(flags, lastCall'.flagKey,
                                      lastCall'.context).ret]_vars

\* invalidateFlagCaches has just removed the global snapshot and the entries
\* of two users.
C11_Witness ==
  /\ lastCall.ran
  /\ lastCall.op = "invalidateFlagCaches"
  /\ lastCall.removed =
       {ALL_FLAGS_CACHE_KEY} \cup {userCacheKey(u) : u \in ServiceUserIds}
  /\ cache = EmptyCache

\* C12: invalidateUserFlagCache(u) removes the entry 'flags:user:u' and
\* nothing else: the global snapshot and the entries of the other users are
\* as they were, and the store is not touched.
C12_InvalidateUserFrame ==
  [][(CallStep /\ lastCall'.op = "invalidateUserFlagCache") =>
       /\ DOMAIN cache' = DOMAIN cache \ {userCacheKey(lastCall'.userId)}
       /\ \A k \in DOMAIN cache' : cache'[k] = cache[k]
       /\ store' = store]_vars

\* invalidateUserFlagCache('u1') has just removed the entry of u1 while the
\* global snapshot and the entry of 'anonymous' stayed.
C12_Witness ==
  /\ lastCall.ran
  /\ lastCall.op = "invalidateUserFlagCache"
  /\ lastCall.userId = U_u1
  /\ lastCall.removed = {userCacheKey(U_u1)}
  /\ DOMAIN cache = {ALL_FLAGS_CACHE_KEY, userCacheKey(S_anonymous)}

\* C15: previewFlagEvaluation returns the key, value, source and ruleId
\* that evaluateFlag returns for the same key and context against the
\* snapshot the call loaded, plus the flag found (null for an unknown key);
\* neither call changes a per-user entry.
C15_PreviewIsEvaluateFlagPlusFlag ==
  [][(CallStep /\ lastCall'.op \in {"evaluateFlag", "previewFlagEvaluation"}) =>
       /\ UserEntries(cache') = UserEntries(cache)
       /\ ~lastCall'.userCacheHit
       /\ lastCall'.op = "previewFlagEvaluation" =>
            LET loaded == parseJSON(cache'[ALL_FLAGS_CACHE_KEY].raw)
                same == evaluateFlagRun(loaded, lastCall'.flagKey,
                                        lastCall'.context)
            IN /\ DOMAIN lastCall'.ret = DOMAIN same.ret \cup {"flag"}
               /\ \A f \in DOMAIN same.ret : lastCall'.ret[f] = same.ret[f]
               /\ lastCall'.ret.flag =
                    IF \E i \in 1..Len(loaded) :
                         loaded[i].key = lastCall'.flagKey
                      THEN same.flag
                    ELSE Null]_vars

\* A preview that returned a rule's value with its ruleId and the flag,
\* while a per-user entry was cached.
C15_Witness ==
  /\ lastCall.ran
  /\ lastCall.op = "previewFlagEvaluation"
  /\ lastCall.ret.source = "rule"
  /\ "ruleId" \in DOMAIN lastCall.ret
  /\ lastCall.ret.flag = lastCall.flag
  /\ UserEntries(cache) # <<>>

\* ------------------------------------------------------------------------
\* Staleness of the two cache layers
\* ------------------------------------------------------------------------

\* The table contents that differ from the current ones only by rewrites
\* made within the last T seconds: the current contents, and each replaced
\* contents whose replacement and every later rewrite are that recent.
RecentStores(T) ==
  {store} \cup
  {storeLog[i].store : i \in {k \in 1..Len(storeLog) :
                                \A j \in k..Len(storeLog) :
                                  now - storeLog[j].until <= T}}

\* The cached global snapshot is what a load of one of those contents builds.
SnapshotWithin(T) ==
  ALL_FLAGS_CACHE_KEY \in DOMAIN cache =>
    \E st \in RecentStores(T) :
      parseJSON(cache[ALL_FLAGS_CACHE_KEY].raw) \in storeSnapshots(st)

\* Two bulk results with the same flags and details, evaluatedAt aside.
SameFlags(a, b) == a.flags = b.flags /\ a.details = b.details

\* The cached bulk result of user u is what one of those contents yields
\* for a context of that user.
UserResultWithin(u, T) ==
  \E st \in RecentStores(T) :
    \E flags \in storeSnapshots(st) :
      \E ctx \in {c \in ServiceContexts : userIdOrAnonymous(c) = u} :
        SameFlags(parseJSON(cache[userCacheKey(u)].raw),
                  buildResponse(flags, ctx, now))

UserResultsWithin(T) ==
  \A u \in ServiceUserIds :
    userCacheKey(u) \in DOMAIN cache => UserResultWithin(u, T)

RECURSIVE ResolvesToNothing(_, _)
ResolvesToNothing(current, parts) ==
  IF parts = <<>> THEN IsNullish(current)
  ELSE IF current.t # "object" THEN TRUE
  ELSE IF Head(parts) \notin DOMAIN current.v THEN TRUE
  ELSE ResolvesToNothing(current.v[Head(parts)], Tail(parts))

FieldParts(condition) == SplitOn(condition.field, ".", <<>>)

\* C18 as stated: when the field path resolves to nothing in the context,
\* the condition matches iff its operator is neq or not_in.
C18_Original ==
  (condOut.ran /\ ResolvesToNothing(inContext, FieldParts(inCondition)))
    => (condOut.ret <=> inCondition.operator \in {"neq", "not_in"})

\* The part of C18 the code keeps: when getContextValue returns undefined or
\* null, the condition matches iff its operator is neq or not_in.
NullishValueRule ==
  (condOut.ran /\ IsNullish(condOut.contextValue))
    => (condOut.ret <=> inCondition.operator \in {"neq", "not_in"})

\* A path that resolves to nothing in the context, yet to an inherited
\* property in the code.
InheritedValueReached ==
  /\ condOut.ran
  /\ ResolvesToNothing(inContext, FieldParts(inCondition))
  /\ ~IsNullish(condOut.contextValue)

\* Both sides are strings that start with a numeric triplet.
BothSemverStrings(x, y) ==
  /\ x.t = "string" /\ y.t = "string"
  /\ parseSemver(x.v).ok /\ parseSemver(y.v).ok

\* Triplet p comes before triplet q: by major, then minor, then patch.
TripletLess(p, q) ==
  \/ p.major < q.major
  \/ p.major = q.major /\ p.minor < q.minor
  \/ p.major = q.major /\ p.minor = q.minor /\ p.patch < q.patch

\* x op y in the semver ordering of the two triplets.
SemverOrdering(op, p, q) ==
  CASE op = "gt" -> TripletLess(q, p)
    [] op = "gte" -> ~TripletLess(p, q)
    [] op = "lt" -> TripletLess(p, q)
    [] op = "lte" -> ~TripletLess(q, p)

\* x op y after both sides are coerced to numbers; false when either is NaN.
NumericOrdering(op, x, y) ==
  /\ ~ToNumber(x).nan
  /\ ~ToNumber(y).nan
  /\ CASE op = "gt" -> ToNumber(x).v > ToNumber(y).v
       [] op = "gte" -> ToNumber(x).v >= ToNumber(y).v
       [] op = "lt" -> ToNumber(x).v < ToNumber(y).v
       [] op = "lte" -> ToNumber(x).v <= ToNumber(y).v

StartsWithTriplet(s) ==
  LET parts == SplitOn(s, ".", <<>>)
  IN /\ Len(parts) >= 3
     /\ parts[1] # <<>> /\ AllDigits(parts[1])
     /\ parts[2] # <<>> /\ AllDigits(parts[2])
     /\ TakeDigits(parts[3]) # <<>>

\* The three numbers of that triplet; what follows the patch digits is left
\* out.
Triplet(s) ==
  LET parts == SplitOn(s, ".", <<>>)
  IN [major |-> DigitsToNat(parts[1], 0), minor |-> DigitsToNat(parts[2], 0),
      patch |-> DigitsToNat(TakeDigits(parts[3]), 0)]

\* C20: for two strings that each start with a numeric triplet, compareSemver
\* orders them by major, then minor, then patch as numbers, whatever follows
\* the triplet; it returns 0 exactly when the three numbers are pairwise
\* equal, and compareSemver(a, b) is the negation of compareSemver(b, a).
C20_SemverOrder ==
  \A args \in DOMAIN semOut :
    (StartsWithTriplet(args[1]) /\ StartsWithTriplet(args[2])) =>
      /\ semOut[args] =
           (IF TripletLess(Triplet(args[1]), Triplet(args[2])) THEN -1
            ELSE IF TripletLess(Triplet(args[2]), Triplet(args[1])) THEN 1
            ELSE 0)
      /\ semOut[args] = 0 <=> Triplet(args[1]) = Triplet(args[2])
      /\ <<args[2], args[1]>> \in DOMAIN semOut =>
           semOut[args] = 0 - semOut[<<args[2], args[1]>>]

\* '1.10.0' and '1.9.0' compared both ways: 1 and -1, against their order as
\* strings.
C20_Witness ==
  /\ <<V_1_10_0, V_1_9_0>> \in DOMAIN semOut
  /\ <<V_1_9_0, V_1_10_0>> \in DOMAIN semOut
  /\ semOut[<<V_1_10_0, V_1_9_0>>] = 1
  /\ semOut[<<V_1_9_0, V_1_10_0>>] = -1
  /\ StrLess(V_1_10_0, V_1_9_0)

\* ------------------------------------------------------------------------
\* Failing backends
\* ------------------------------------------------------------------------

EvaluationOps == {"evaluateFlag", "evaluateAllFlags", "previewFlagEvaluation"}

\* The step is an evaluation call whose load goes to the store: 'flags:all'
\* is not cached, nor, for evaluateAllFlags, the entry of the user.
LoadReachesStore ==
  /\ CallStep
  /\ lastCall'.op \in EvaluationOps
  /\ ALL_FLAGS_CACHE_KEY \notin DOMAIN cache
  /\ lastCall'.op = "evaluateAllFlags" =>
       userCacheKey(userIdOrAnonymous(lastCall'.context)) \notin DOMAIN cache

\* C16: when the flags select or the rules select fails during a load, the
\* call of evaluateFlag, evaluateAllFlags or previewFlagEvaluation rejects
\* and returns no result, no key of the cache is written, and each select
\* was issued once at most.
C16_FetchFailureFailsTheCall ==
  [][(failing \in {"flagsFetch", "rulesFetch"} /\ LoadReachesStore) =>
       /\ lastCall'.threw
       /\ "ret" \notin DOMAIN lastCall'
       /\ cache' = cache
       /\ lastCall'.fetched = (IF failing = "flagsFetch" THEN <<"flags">>
                               ELSE <<"flags", "rules">>)]_vars

\* evaluateAllFlags rejected on the rules select while another user's bulk
\* result is cached.
C16_Witness ==
  /\ lastCall.ran
  /\ lastCall.threw
  /\ lastCall.op = "evaluateAllFlags"
  /\ lastCall.failedAt = "selectRules"
  /\ UserEntries(cache) # <<>>

\* C17 as stated: while a Redis command fails and the store is available, a
\* call of evaluateFlag or evaluateAllFlags still returns a result; when it
\* is the read that fails, the result is computed from the store.
C17_Original ==
  [][(/\ CallStep
      /\ failing \in {"cacheRead", "cacheWrite", "cacheDelete"}
      /\ lastCall'.op \in {"evaluateFlag", "evaluateAllFlags"}) =>
       /\ ~lastCall'.threw
       /\ "ret" \in DOMAIN lastCall'
       /\ failing = "cacheRead" => lastCall'.storeRead]_vars

\* An evaluation rejected on a Redis command while both selects work.
CacheFailureRejects ==
  /\ lastCall.ran
  /\ lastCall.op \in {"evaluateFlag", "evaluateAllFlags"}
  /\ lastCall.threw
  /\ lastCall.failedAt \in {"getCache", "setCache"}
  /\ failing \in {"cacheRead", "cacheWrite"}

\* ------------------------------------------------------------------------
\* Concurrent loads
\* ------------------------------------------------------------------------

\* Both loads missed 'flags:all', fetched and wrote their snapshot.
BothWrote ==
  \A p \in Loaders : loaders[p].pc = "done" /\ loaders[p].wrote

\* The four selects of the two loads read the same table contents.
StoreUnchangedDuring ==
  \A p, q \in Loaders :
    /\ loaders[p].sawFlags = loaders[q].sawFlags
    /\ loaders[p].sawFlags = loaders[q].sawRules

\* A flag with its rules as a set and the priorities in the order held.
RowOrderAside(flag) ==
  [flag EXCEPT !.rules =
     [rows |-> {flag.rules[k] : k \in 1..Len(flag.rules)},
      priorities |-> [k \in 1..Len(flag.rules) |-> flag.rules[k].priority]]]

\* Two snapshots with the same flags, each with the same rules in ascending
\* priority: they differ at most in the order of the flags and in the order
\* of rules of equal priority.
SameUpToRowOrder(a, b) ==
  /\ Len(a) = Len(b)
  /\ {RowOrderAside(a[i]) : i \in 1..Len(a)}
       = {RowOrderAside(b[i]) : i \in 1..Len(b)}

\* C14 as stated: whenever two loads both missed the global cache and wrote,
\* store rewrites in between included, the two snapshots written are
\* equivalent.
C14_Original ==
  BothWrote => SameUpToRowOrder(loaders[1].written, loaders[2].written)

\* C14, amended: when the tables are not rewritten between the selects of
\* the two loads, the two snapshots written hold the same flags with the
\* same rules, up to the order the database returns rows in, and so does
\* the cache whichever write landed last.
C14_EquivalentWhenStoreUnchanged ==
  (BothWrote /\ StoreUnchangedDuring) =>
    /\ SameUpToRowOrder(loaders[1].written, loaders[2].written)
    /\ ALL_FLAGS_CACHE_KEY \in DOMAIN cache =>
         SameUpToRowOrder(parseJSON(cache[ALL_FLAGS_CACHE_KEY].raw),
                          loaders[1].written)

\* Both loads wrote from unchanged tables, and the snapshots differ in the
\* order of two rules of one priority.
C14_Witness ==
  /\ BothWrote
  /\ StoreUnchangedDuring
  /\ loaders[1].written # loaders[2].written
  /\ ALL_FLAGS_CACHE_KEY \in DOMAIN cache

\* ------------------------------------------------------------------------
\* C21: compareSemver when a string does not parse
\* ------------------------------------------------------------------------

\* The three orderings compareSemver can report.
Orderings == {-1, 0, 1}

\* C21: when either string does not parse as major.minor.patch, compareSemver
\* returns none of the orderings -1, 0, 1 for that pair.
C21_Original ==
  \A args \in DOMAIN semOut :
    (~StartsWithTriplet(args[1]) \/ ~StartsWithTriplet(args[2])) =>
      semOut[args] \notin Orderings

\* What compareSemver does with such a pair: it orders the two strings as
\* strings and returns -1, 0 or 1, as it does for a pair that parses.
UnparsedPairOrderedAsStrings ==
  \A args \in DOMAIN semOut :
    (~StartsWithTriplet(args[1]) \/ ~StartsWithTriplet(args[2])) =>
      semOut[args] = (IF StrLess(args[1], args[2]) THEN -1
                      ELSE IF StrLess(args[2], args[1]) THEN 1 ELSE 0)

\* ------------------------------------------------------------------------
\* C22: eq and neq compare string forms
\* ------------------------------------------------------------------------

\* What JavaScript's String() gives for each value of the equality runs,
\* written out.
StringForm ==
  (JNum(1) :> N_1) @@ (JStr(N_1) :> N_1) @@
  (JNum(-1) :> N_minus1) @@ (JStr(N_minus1) :> N_minus1) @@
  (JBool(TRUE) :> S_true) @@ (JStr(S_true) :> S_true) @@
  (JBool(FALSE) :> S_false) @@
  (JStr(S_pro) :> S_pro) @@
  (Null :> S_null) @@ (JStr(S_null) :> S_null) @@
  (JStr(<<>>) :> <<>>) @@ (JArr(<<>>) :> <<>>) @@
  (JArr(<<JStr(S_pro)>>) :> S_pro) @@
  (JObj(<<>>) :> S_objectObject) @@ (JStr(S_objectObject) :> S_objectObject)

\* A run of eq or neq on a context value that is present, from the equality
\* runs.
EqualityRun ==
  /\ condOut.ran
  /\ inCondition.operator \in {"eq", "neq"}
  /\ ~IsNullish(condOut.contextValue)
  /\ condOut.contextValue \in EqualityValues
  /\ inCondition.value \in EqualityOperands

\* The other operator of the pair eq, neq on the condition of the run.
OtherEquality ==
  [inCondition EXCEPT !.operator = IF @ = "eq" THEN "neq" ELSE "eq"]

\* C22: for a present context value, eq holds iff the string form of the
\* context value equals the string form of the operand and neq holds iff they
\* differ, so exactly one of the two holds; the number 1 equals the string
\* '1' and the boolean true equals the string 'true'.
C22_EqualityByStringForm ==
  EqualityRun =>
    /\ condOut.ret =
         ((inCondition.operator = "eq") <=>
            (StringForm[condOut.contextValue] = StringForm[inCondition.value]))
    /\ condOut.ret # matchesSingleCondition(condOut.contextValue, OtherEquality)

\* eq has run on the number 1 against the string '1' and held.
C22_Witness ==
  /\ EqualityRun
  /\ inCondition.operator = "eq"
  /\ condOut.contextValue = JNum(1)
  /\ inCondition.value = JStr(N_1)
  /\ condOut.ret

\* eq has run on the boolean true against the string 'true' and held.
BooleanEqualsItsText ==
  /\ EqualityRun
  /\ inCondition.operator = "eq"
  /\ condOut.contextValue = JBool(TRUE)
  /\ inCondition.value = JStr(S_true)
  /\ condOut.ret

\* ------------------------------------------------------------------------
\* C23: in and not_in
\* ------------------------------------------------------------------------

\* A run of in or not_in on a context value that is present, from the
\* membership runs.
MembershipRun ==
  /\ condOut.ran
  /\ inCondition.operator \in {"in", "not_in"}
  /\ ~IsNullish(condOut.contextValue)
  /\ condOut.contextValue \in MembershipValues
  /\ inCondition.value \in MembershipOperands

IsSequence(x) == x.t = "array"

\* Some element of the operand has the string form of the context value.
SomeElementEquals(operand, contextValue) ==
  \E i \in 1..Len(operand.v) :
    StringForm[operand.v[i]] = StringForm[contextValue]

\* C23: for a present context value, in holds iff the operand is a sequence
\* and the string form of some element equals that of the context value;
\* not_in holds iff the operand is no sequence or no element's string form
\* equals it; with a non-sequence operand in is false and not_in is true.
C23_MembershipByStringForm ==
  MembershipRun =>
    LET operand == inCondition.value
        member == /\ IsSequence(operand)
                  /\ SomeElementEquals(operand, condOut.contextValue)
    IN /\ inCondition.operator = "in" => (condOut.ret <=> member)
       /\ inCondition.operator = "not_in" => (condOut.ret <=> ~member)
       /\ ~IsSequence(operand) =>
            (condOut.ret <=> inCondition.operator = "not_in")

\* in has run on the string '1' against the array [1, 'pro'] and held.
C23_Witness ==
  /\ MembershipRun
  /\ inCondition.operator = "in"
  /\ condOut.contextValue = JStr(N_1)
  /\ inCondition.value = JArr(<<JNum(1), JStr(S_pro)>>)
  /\ condOut.ret

\* not_in has run against an operand that is a string, not an array, and
\* held although the string equals the context value.
NotInHoldsOnNonSequence ==
  /\ MembershipRun
  /\ inCondition.operator = "not_in"
  /\ condOut.contextValue = JStr(S_pro)
  /\ inCondition.value = JStr(S_pro)
  /\ condOut.ret

\* ------------------------------------------------------------------------
\* C24: malformed conditions
\* ------------------------------------------------------------------------

\* The patterns of the runs that new RegExp rejects.
NonCompilingPatterns == {JStr(P_starPro), JStr(P_openClass)}

RegexDoesNotCompile ==
  inCondition.operator = "regex" /\ inCondition.value \in NonCompilingPatterns

MembershipOperandNoSequence ==
  inCondition.operator \in {"in", "not_in"} /\ ~IsSequence(inCondition.value)

UnknownOperator == inCondition.operator \notin CondOperators

\* C24 as stated: a condition whose regex operand does not compile, whose
\* membership operand (for in or not_in) is no sequence, or whose operator is
\* unknown evaluates to false.
C24_Original ==
  (condOut.ran /\ (RegexDoesNotCompile \/ MembershipOperandNoSequence
                   \/ UnknownOperator)) =>
    condOut.ret = FALSE

\* C24: a condition whose regex operand does not compile or whose operator is
\* unknown evaluates to false, on a present and on a missing context value;
\* with a membership operand that is no sequence, in evaluates to false and
\* not_in to true; every run returns a boolean.
C24_MalformedCondition ==
  condOut.ran =>
    /\ condOut.ret \in BOOLEAN
    /\ (RegexDoesNotCompile \/ UnknownOperator) => condOut.ret = FALSE
    /\ MembershipOperandNoSequence =>
         (condOut.ret <=> inCondition.operator = "not_in")

\* regex has run with the pattern '*pro' on the string '*pro' and failed.
C24_Witness ==
  /\ condOut.ran
  /\ RegexDoesNotCompile
  /\ condOut.contextValue = JStr(P_starPro)
  /\ inCondition.value = JStr(P_starPro)
  /\ ~condOut.ret

\* An unknown operator has run on a present value and failed.
UnknownOperatorFails ==
  /\ condOut.ran
  /\ UnknownOperator
  /\ ~IsNullish(condOut.contextValue)
  /\ ~condOut.ret

\* ------------------------------------------------------------------------
\* C27: ordering operators on values that are not numbers
\* ------------------------------------------------------------------------

\* The values of the ordering runs for which Number() gives NaN: text that
\* is no number, a version string included.
NotCoercible ==
  {JStr(S_pro), JStr(S_free), JStr(V_1_9_0), JStr(V_1_10_0),
   JStr(V_1_9_0_beta)}

\* A run of an ordering operator on two values of the ordering runs that are
\* not both semver strings, one of them at least no number.
NotANumberRun ==
  /\ condOut.ran
  /\ inCondition.operator \in OrderingOperators
  /\ condOut.contextValue \in OrderingValues
  /\ inCondition.value \in OrderingValues
  /\ ~BothSemverStrings(condOut.contextValue, inCondition.value)
  /\ (condOut.contextValue \in NotCoercible
      \/ inCondition.value \in NotCoercible)

VersionAgainstNumberFails ==
  /\ NotANumberRun
  /\ inCondition.operator = "lte"
  /\ condOut.contextValue = JStr(V_1_9_0)
  /\ inCondition.value = JNum(10)
  /\ ~condOut.ret

\* ------------------------------------------------------------------------
\* C30: the rollout gate is monotone in the percentage
\* ------------------------------------------------------------------------

\* C30: for one flag key and user id, if calculateRollout is true at a
\* percentage p then it is true at every percentage q >= p: raising the
\* percentage removes no user who was inside the rollout.
C30_MonotoneInPercentage ==
  \A c, d \in 1..Len(rollLog) :
    (rollLog[c].ret /\ rollLog[c].percentage <= rollLog[d].percentage)
      => rollLog[d].ret

\* A user in bucket 49 was inside at 50 and, after the raise, at 99.
C30_Witness ==
  /\ Len(rollLog) >= 2
  /\ Bucket32(hashOf[rollKey \o <<":">> \o rollUser]) = 49
  /\ rollLog[1] = [percentage |-> 50, ret |-> TRUE]
  /\ rollLog[2] = [percentage |-> 99, ret |-> TRUE]

\* A user in bucket 50 was outside at 50 and is inside after the raise to 99.
RaiseAdmitsUser ==
  /\ Len(rollLog) >= 2
  /\ rollLog[1] = [percentage |-> 50, ret |-> FALSE]
  /\ rollLog[2] = [percentage |-> 99, ret |-> TRUE]

\* ------------------------------------------------------------------------
\* C25: what evaluateAllFlags builds on a per-user cache miss
\* ------------------------------------------------------------------------

\* A step of evaluateAllFlags that missed the per-user cache and returned.
BulkMissStep ==
  /\ CallStep
  /\ lastCall'.op = "evaluateAllFlags"
  /\ ~lastCall'.threw
  /\ ~lastCall'.userCacheHit

\* The snapshots the loadAllFlags of that step can have returned: the cached
\* one on a global hit, a reading of the tables otherwise.
SnapshotsLoaded ==
  IF lastCall'.globalHit THEN {getCache(cache, ALL_FLAGS_CACHE_KEY).value}
  ELSE storeSnapshots(store)

\* 'flags:user:<userId or anonymous>' for the context.
ExpectedUserKey(context) ==
  <<"f", "l", "a", "g", "s", ":", "u", "s", "e", "r", ":">>
    \o ExpectedUser(context)

\* C25: on a per-user cache miss evaluateAllFlags evaluates every flag of the
\* loaded snapshot once: details holds one result per flag in snapshot
\* order, each equal to what evaluateFlag returns for that key and context on
\* the same snapshot; flags maps each flag key to the value of its detail;
\* and the response is stored under 'flags:user:<userId or anonymous>' with
\* the per-user TTL of 60 s by the time it is returned.
C25_BulkMissEvaluatesEveryFlag ==
  [][BulkMissStep =>
       \E snapshot \in SnapshotsLoaded :
         LET ret == lastCall'.ret
             context == lastCall'.context
         IN /\ Len(ret.details) = Len(snapshot)
            /\ \A i \in 1..Len(snapshot) :
                 /\ ret.details[i].key = snapshot[i].key
                 /\ ret.details[i] =
                      evaluateFlagRun(snapshot, snapshot[i].key, context).ret
                 /\ ret.flags[snapshot[i].key] = ret.details[i].value
            /\ DOMAIN ret.flags = {snapshot[i].key : i \in 1..Len(snapshot)}
            /\ ExpectedUserKey(context) \in DOMAIN cache'
            /\ cache'[ExpectedUserKey(context)] =
                 [raw |-> stringifyResponse(ret), expiresAt |-> now + 60]]_vars

\* evaluateAllFlags has missed the per-user cache on a snapshot of two flags,
\* one of them disabled, and stored its response.
C25_Witness ==
  /\ lastCall.ran
  /\ lastCall.op = "evaluateAllFlags"
  /\ ~lastCall.threw
  /\ ~lastCall.userCacheHit
  /\ Len(lastCall.ret.details) = 2
  /\ lastCall.ret.details[2].source = "disabled"
  /\ userCacheKey(userIdOrAnonymous(lastCall.context)) \in DOMAIN cache

\* ------------------------------------------------------------------------
\* C26: loadAllFlags on a hit and on a miss
\* ------------------------------------------------------------------------

\* A step of a call that ran loadAllFlags and returned.
LoadStep ==
  /\ CallStep
  /\ lastCall'.op \in EvaluationOps
  /\ ~lastCall'.threw
  /\ lastCall'.globalRead

\* The call of the step returned what the flag list yields.
ComputedFrom(allFlags) ==
  IF lastCall'.op = "evaluateAllFlags"
    THEN lastCall'.ret = buildResponse(allFlags, lastCall'.context, now)
  ELSE LET run == evaluateFlagRun(allFlags, lastCall'.flagKey,
                                  lastCall'.context)
       IN /\ lastCall'.found = run.found
          /\ lastCall'.flag = run.flag
          /\ lastCall'.op = "evaluateFlag" => lastCall'.ret = run.ret

\* The rows of feature_flag_rules of store st that carry the flag id.
RuleRowsOf(st, flagId) ==
  {r \in 1..Len(st.rules) : st.rules[r].flagId = flagId}

\* The snapshot holds the flags of store st, each with the rules whose
\* flagId is its id and no other, each rule once.
AttachedExactly(snapshot, st) ==
  /\ Len(snapshot) = Len(st.flags)
  /\ \A i \in 1..Len(snapshot) :
       /\ snapshot[i].id = st.flags[i].id
       /\ snapshot[i].key = st.flags[i].key
       /\ Len(snapshot[i].rules) = Cardinality(RuleRowsOf(st, snapshot[i].id))
       /\ \A r \in RuleRowsOf(st, snapshot[i].id) :
            \E j \in 1..Len(snapshot[i].rules) :
              /\ snapshot[i].rules[j].id = st.rules[r].id
              /\ snapshot[i].rules[j].priority = st.rules[r].priority
              /\ snapshot[i].rules[j].value = st.rules[r].value

\* C26: when 'flags:all' is cached, loadAllFlags returns the cached snapshot
\* as it is, reads neither table and writes nothing, so the entry and its
\* expiry stay as they were; when it is not, loadAllFlags reads both tables,
\* attaches to each flag the rules whose flagId is its id and no other (none
\* for a flag without rules), and writes the snapshot under 'flags:all' with
\* a TTL of 300 s.
C26_LoadHitAndMiss ==
  [][LoadStep =>
       IF ALL_FLAGS_CACHE_KEY \in DOMAIN cache
         THEN /\ lastCall'.globalHit
              /\ ~lastCall'.storeRead
              /\ cache'[ALL_FLAGS_CACHE_KEY] = cache[ALL_FLAGS_CACHE_KEY]
              /\ lastCall'.op # "evaluateAllFlags" => cache' = cache
              /\ ComputedFrom(cache[ALL_FLAGS_CACHE_KEY].raw.json)
       ELSE /\ ~lastCall'.globalHit
            /\ lastCall'.storeRead
            /\ ALL_FLAGS_CACHE_KEY \in DOMAIN cache'
            /\ cache'[ALL_FLAGS_CACHE_KEY].expiresAt = now + 300
            /\ AttachedExactly(cache'[ALL_FLAGS_CACHE_KEY].raw.json, store)
            /\ ComputedFrom(cache'[ALL_FLAGS_CACHE_KEY].raw.json)]_vars

\* evaluateFlag has hit a snapshot cached 270 s earlier, after the tables
\* were rewritten: the entry still expires 300 s after it was written.
C26_Witness ==
  /\ lastCall.ran
  /\ lastCall.op = "evaluateFlag"
  /\ lastCall.globalHit
  /\ now = 270
  /\ mutations > 0
  /\ ALL_FLAGS_CACHE_KEY \in DOMAIN cache
  /\ cache[ALL_FLAGS_CACHE_KEY].expiresAt = 300
  /\ ~AttachedExactly(cache[ALL_FLAGS_CACHE_KEY].raw.json, store)

\* A load has missed and cached a snapshot whose second flag has no rules.
MissAttachesNoRules ==
  /\ lastCall.ran
  /\ lastCall.op \in EvaluationOps
  /\ lastCall.storeRead
  /\ ALL_FLAGS_CACHE_KEY \in DOMAIN cache
  /\ Len(cache[ALL_FLAGS_CACHE_KEY].raw.json) = 2
  /\ cache[ALL_FLAGS_CACHE_KEY].raw.json[2].rules = <<>>
  /\ Len(cache[ALL_FLAGS_CACHE_KEY].raw.json[1].rules) = 2

\* ------------------------------------------------------------------------
\* C28: bulk results of contexts that share a user id
\* ------------------------------------------------------------------------

\* C28 as stated: every result evaluateAllFlags returns for a context, from
\* the per-user cache or computed, is the per-flag evaluation of a loaded
\* snapshot for that context, also when another context with the same userId
\* (or as little of one) and another tier was evaluated before. The tables
\* are not rewritten in these runs, so a loaded snapshot is a reading of the
\* store.
C28_Original ==
  [][(CallStep /\ lastCall'.op = "evaluateAllFlags" /\ ~lastCall'.threw) =>
       \E flags \in storeSnapshots(store) :
         SameFlags(lastCall'.ret,
                   buildResponse(flags, lastCall'.context, now))]_vars

\* What the code does: a result served from the per-user cache is the text
\* stored under the key of the user id, whatever else the context holds; a
\* computed result is the evaluation for the context of the call.
BulkResultKeyedByUserIdAlone ==
  [][(CallStep /\ lastCall'.op = "evaluateAllFlags" /\ ~lastCall'.threw) =>
       IF lastCall'.userCacheHit
         THEN lastCall'.ret =
                cache[ExpectedUserKey(lastCall'.context)].raw.json
       ELSE \E flags \in storeSnapshots(store) :
              SameFlags(lastCall'.ret,
                        buildResponse(flags, lastCall'.context, now))]_vars

\* The free-tier context of u1 was served a result in which f1 is true, the
\* value of the rule for the paid tiers.
FreeTierServedPaidResult ==
  /\ lastCall.ran
  /\ lastCall.op = "evaluateAllFlags"
  /\ lastCall.context = CtxU1Free
  /\ lastCall.userCacheHit
  /\ lastCall.ret.flags[K_f1] = JBool(TRUE)

\* ------------------------------------------------------------------------
\* C29: evaluations after a rewrite of the tables and an invalidation
\* ------------------------------------------------------------------------

\* The tables were rewritten, invalidateFlagCaches was called after the last
\* rewrite and has returned.
InvalidatedAfterMutation ==
  /\ mutations > 0
  /\ loaders[Invalidator].pc = "done"
  /\ loaders[Invalidator].mutationsAtCall = mutations

\* The step is an evaluateFlag or evaluateAllFlags call made from there.
CallAfterInvalidation ==
  /\ InvalidatedAfterMutation
  /\ CallStep
  /\ lastCall'.op \in {"evaluateFlag", "evaluateAllFlags"}

\* The call of the step returned what a reading of the store as it is
\* yields.
FromCurrentStore ==
  \E flags \in storeSnapshots(store) :
    IF lastCall'.op = "evaluateAllFlags"
      THEN SameFlags(lastCall'.ret,
                     buildResponse(flags, lastCall'.context, now))
    ELSE lastCall'.ret =
           evaluateFlagRun(flags, lastCall'.flagKey, lastCall'.context).ret

\* C29 as stated: once the tables were rewritten and invalidateFlagCaches
\* has then run to completion, every evaluateFlag or evaluateAllFlags call
\* that starts afterwards returns a result computed from the rewritten
\* tables, also while a loadAllFlags that read the tables before the rewrite
\* is in flight and writes 'flags:all' after the deletes.
C29_Original == [][CallAfterInvalidation => FromCurrentStore]_vars

\* The load in flight holds rows that the tables no longer hold, or has
\* written such rows to 'flags:all'.
LoadHoldsOldRows ==
  \/ (loaders[StaleLoader].sawFlags # NotRun
      /\ loaders[StaleLoader].sawFlags # store)
  \/ (loaders[StaleLoader].sawRules # NotRun
      /\ loaders[StaleLoader].sawRules # store)

\* What holds: such a call returns a result of the rewritten tables unless a
\* load that read the tables before the rewrite wrote its snapshot after the
\* global delete.
FreshUnlessOldLoadWrote ==
  [][(CallAfterInvalidation
      /\ ~(loaders[StaleLoader].wrote /\ LoadHoldsOldRows))
       => FromCurrentStore]_vars

\* After the rewrite and the completed invalidation, 'flags:all' holds a
\* snapshot of the tables as they were before the rewrite.
OldSnapshotCachedAfterInvalidation ==
  /\ InvalidatedAfterMutation
  /\ loaders[StaleLoader].wrote
  /\ ALL_FLAGS_CACHE_KEY \in DOMAIN cache
  /\ cache[ALL_FLAGS_CACHE_KEY].raw.json \notin
       {stringifyFlags(flags).json : flags \in storeSnapshots(store)}

====
